---------------------------- MODULE Spec2Model ----------------------------
(***************************************************************************)
(* Request gates of helix-fnd: the idempotency gate                        *)
(* (server/middleware/trace.go, third file of the concatenation), the GCRA *)
(* rate gate (server/middleware/ratelimit.go), the JWKS caching client     *)
(* (crypto/jwks_client.go) and the async audit writer                      *)
(* (audit/async_writer.go).  Each subsystem has its own specification;     *)
(* the variables of the other subsystems stay at their idle values.        *)
(***************************************************************************)
EXTENDS Integers, Sequences, FiniteSets, TLC

(***************************************************************************)
(* Bounds of the model.                                                    *)
(***************************************************************************)
NReq == 3
\* Rate gate: largest burst configured, last tick of the clock, most admissions.
MaxBurst == 4
MaxTime == 6
MaxAdmits == 8
\* JWKS client: most fetches started through doRefresh.
MaxFetches == 3
\* Audit writer: capacity of the channel, most Log calls, last tick of the clock.
BufferSize == 2
MaxLog == 4
MaxClock == 3
\* Trusted-gateway strategy: bits of an IPv4 and of an IPv6 address.
V4Bits == 2
V6Bits == 3
\* Server lifecycle: cfg.ShutdownTimeout in ticks, most requests in flight on
\* one listener, ticks the clock runs on after the window.
ShutdownWindow == 2
MaxInflight == 2
Overrun == 2
\* Consumer: records in the partition, most records of one fetch, most
\* failures of the handler on one record, largest cfg.MaxRetries.
NRec == 3
MaxBatch == 2
MaxAttempts == 3
MaxRetriesBound == 2
\* VerifyToken: c.maxStaleDuration in seconds.
MaxStale == 10
\* The rate gate under load: rps and burst of the gate, most requests of
\* the identity, last tick of the clock.
LoadRate == 10
LoadBurst == 10
MaxLoadReqs == 42
MaxLoadTime == 4

VARIABLES
  \* ---- idempotency gate: the remote store and the requests on one key
  rec,          \* the Redis hash stored at each storage key
  pc,           \* position of each request in the middleware
  fp,           \* hashStr of each request (payload fingerprint)
  res,          \* what the claim script returned to each request
  out,          \* what the handler wrote through idempotencyWriter
  resp,         \* the response the client of each request received
  epoch,        \* history: number of times the key has disappeared
  claimEpoch,   \* history: epoch in which the request ran the script
  sawAbsent,    \* history: the key was absent when the request's script ran
  stored,       \* history: whether the post-process store commands went through
  owner,        \* history: the request whose post-process stored the record
  who,          \* the principal (or anonymous address) that sends each request
  hreq,         \* each request: its method and its Idempotency-Key header
  \* ---- rate gate: one identity's key rl:<identity> in the remote counter
  gRate,        \* rps of the middleware
  gBurst,       \* burst of the middleware
  gNow,         \* the store's clock (TIME), in ticks
  gKey,         \* the stored tat and the time the key's TTL runs out
  gAdmits,      \* history: the times of the admitted requests
  gLast,        \* the script's last result: -1 (admit) or Retry-After seconds
  gOutage,      \* the remote counter is unreachable: every script call fails
  gErr,         \* the script call of the last request returned an error
  gStatus,      \* status of the last response (HTTP status or gRPC code)
  gServed,      \* the last request reached the next handler
  gFallback,    \* the last response carries X-RateLimit-Fallback
  eTokens,      \* emergencyLimiter: its tokens, in 1/TicksPerSec of a token
  eLast,        \* emergencyLimiter: the time its tokens were last updated
  \* ---- JWKS caching client
  jState,       \* "new", "ready" (constructor returned c) or "failed"
  jInitErr,     \* history: the error of the initial fetch ("none": success)
  jCache,       \* c.cache: the kids of the cached keys
  jPc,          \* position of each caller of doRefresh
  jKid,         \* the kid of the token a verifier is checking
  jJoined,      \* the singleflight call a caller started or joined
  jRes,         \* the error value doRefresh returned to the caller
  jVerdict,     \* what the key function of VerifyToken returned
  sfCall,       \* the call registered in c.sf under "refresh_keys" (0: none)
  jCalls,       \* number of fetches started by doRefresh so far
  jFetchResult, \* history: the result of each finished fetch
  jServedK2,    \* history: every finished fetch was served a key set with k2
  \* ---- async audit writer
  aBlockOnFull, \* l.blockOnFull
  aQueue,       \* l.events: the buffered events
  aClosed,      \* l.events has been closed
  aCloses,      \* number of times close(l.events) was executed
  aClose,       \* position of each Close call
  aWorker,      \* position of the worker goroutine
  aHand,        \* the event the worker has received
  aSink,        \* the events encoded into l.writer
  aLogged,      \* number of Log calls so far; call n logs event n
  aPending,     \* the event of the Log call that is in its select (0: none)
  aCtx,         \* the context of that call: "live" or "cancelled"
  aRet,         \* what the Log call of each event returned
  aDropped,     \* history: the events whose Log call took the drop path
  aFailed,      \* history: the events whose Encode returned an error
  aPanicked,    \* a Log call has panicked
  aDropCount,   \* l.dropCount
  aLastLog,     \* l.lastLogTime, in ticks
  aWarns,       \* the dropped_count of each distress summary emitted
  aNow,         \* the wall clock, in ticks of 30 s
  \* ---- trusted-gateway strategy
  tState,       \* "new", "ready" (constructor returned s) or "failed"
  tCIDRs,       \* s.trustedCIDRs
  tPeer,        \* r.RemoteAddr of the requests that are followed
  tHdr,         \* the identity headers of each request
  tRes,         \* what Authenticate returned for each request
  \* ---- server lifecycle
  sEnableHTTP,  \* cfg.EnableHTTP
  sEnableGRPC,  \* cfg.EnableGRPC
  sPhase,       \* where Start is: "serving", "http_shutdown", "grpc_stop",
                \* "returned"
  sResult,      \* what Start returned: "none", "nil" or "err"
  sHttpUp,      \* the HTTP listener accepts requests
  sGrpcUp,      \* the gRPC listener accepts calls
  sHttp,        \* number of in-flight HTTP requests
  sRpc,         \* number of active RPCs
  sNow,         \* ticks since the context of Start was cancelled
  \* ---- consumer
  kCfg,         \* c.cfg, as NewConsumer left it
  kHasDLQ,      \* c.dlqProducer # nil
  kCtx,         \* the context of Start: "live" or "cancelled"
  kPc,          \* where Start is: "poll", "iter", "attempt", "backoff",
                \* "commit", "returned", "panicked"
  kRet,         \* what Start returned: "none", "nil", "ctx", "dlq_err"
  kPos,         \* offset of the next record PollFetches will deliver
  kBatch,       \* records of the current fetch not yet iterated
  kCur,         \* the record being processed, 0 for none
  kAttempt,     \* attempt of processWithRetry
  kBackoff,     \* backoff of processWithRetry
  kWaits,       \* history: the waits of the current record, in order
  kCommitted,   \* records CommitRecords has committed
  kCommitFailed,\* history: records whose CommitRecords returned an error
  kHandled,     \* history: records whose handler returned nil
  kDLQ,         \* what the DLQ producer has published: <<topic, record>>
  kDLQFailed,   \* history: records whose DLQ publish failed
  kDropped,     \* history: records acked without handler or DLQ success
  \* ---- one call of VerifyToken, with the clock
  vNow,         \* time.Now() during the call, in seconds
  vAge,         \* time.Since(c.lastUpdated) at the call, in seconds
  vCache,       \* c.cache: the kids it holds
  vTok,         \* the token presented
  vPc,          \* "idle" before the call, "done" after it
  vResult,      \* what VerifyToken returned
  vRefreshes,   \* history: doRefresh calls made by the call
  vStaleLogged, \* history: the call logged that the keys are stale
  \* ---- the rate gate under the load of one identity, with counters
  lRate,        \* rps
  lBurst,       \* burst
  lOutage,      \* the remote counter is unreachable
  lNow,         \* the clock, in ticks of 1/TicksPerSec second
  lKey,         \* the key rl:<identity>
  lTokens,      \* emergencyLimiter: tokens, in 1/TicksPerSec of a token
  lLast,        \* emergencyLimiter: time of the last update
  lIssued,      \* requests issued
  lLater,       \* requests issued after the first instant
  lAdmitted,    \* requests handed to the next handler
  lDenied,      \* requests answered 429 or 503
  lStatus,      \* status of the last response, 200 for the next handler
  lRetry,       \* the Retry-After values sent
  \* ---- concurrent callers of handleDrop
  hPc,          \* where each caller is in handleDrop
  hNowRead,     \* now: what time.Now() returned to each caller
  hLastRead,    \* lastLog: what each caller loaded from l.lastLogTime
  hCount,       \* l.dropCount
  hLastLog,     \* l.lastLogTime, in ticks
  hEmits,       \* the summaries emitted: wall-clock tick and dropped_count
  hCalls,       \* handleDrop calls begun so far
  hClock,       \* the wall clock, in ticks of 30 s
  \* ---- the script with key expiry beside a stored tat kept forever
  xRate,        \* rps
  xBurst,       \* burst
  xNow,         \* the clock, in ticks of 1/TicksPerSec second
  xKey,         \* the key rl:<identity>, with its TTL
  xKept,        \* the same key when it never expires
  xReqs,        \* requests made so far
  xLast,        \* what the script returned to the last request: with expiry, without
  \* ---- the process-wide fallback bucket and the gates constructed
  oGates,       \* the gates constructed, in order: rps and burst of each
  oOnce,        \* limiterOnce has run
  oLimiter,     \* emergencyLimiter
  oCreated,     \* history: rate.NewLimiter calls made
  oDraw,        \* history: the gate of the last fallback draw and its outcome
  oNow          \* the clock, in ticks of 1/TicksPerSec second

idemVars == <<rec, pc, fp, res, out, resp, epoch, claimEpoch, sawAbsent,
              stored, owner, who, hreq>>

gcraVars == <<gRate, gBurst, gNow, gKey, gAdmits, gLast, gOutage, gErr,
              gStatus, gServed, gFallback, eTokens, eLast>>

jwksVars == <<jState, jInitErr, jCache, jPc, jKid, jJoined, jRes, jVerdict,
              sfCall, jCalls, jFetchResult, jServedK2>>

auditVars == <<aBlockOnFull, aQueue, aClosed, aCloses, aClose, aWorker, aHand,
               aSink, aLogged, aPending, aCtx, aRet, aDropped, aFailed,
               aPanicked, aDropCount, aLastLog, aWarns, aNow>>

authVars == <<tState, tCIDRs, tPeer, tHdr, tRes>>

serverVars == <<sEnableHTTP, sEnableGRPC, sPhase, sResult, sHttpUp, sGrpcUp,
                sHttp, sRpc, sNow>>

consumerVars == <<kCfg, kHasDLQ, kCtx, kPc, kRet, kPos, kBatch, kCur,
                  kAttempt, kBackoff, kWaits, kCommitted,
                  kCommitFailed, kHandled, kDLQ,
                  kDLQFailed, kDropped>>

verifyVars == <<vNow, vAge, vCache, vTok, vPc, vResult, vRefreshes,
                vStaleLogged>>

loadVars == <<lRate, lBurst, lOutage, lNow, lKey, lTokens, lLast, lIssued,
              lLater, lAdmitted, lDenied, lStatus, lRetry>>

dropVars == <<hPc, hNowRead, hLastRead, hCount, hLastLog, hEmits, hCalls,
              hClock>>

expiryVars == <<xRate, xBurst, xNow, xKey, xKept, xReqs, xLast>>

onceVars == <<oGates, oOnce, oLimiter, oCreated, oDraw, oNow>>

vars == <<idemVars, gcraVars, jwksVars, auditVars, authVars, serverVars,
          consumerVars, verifyVars, loadVars,
  dropVars,
  expiryVars,
  onceVars>>

\* What an action of one subsystem leaves alone.
NotIdem == <<gcraVars, jwksVars, auditVars, authVars, serverVars,
  consumerVars, verifyVars, loadVars,
  dropVars,
  expiryVars,
  onceVars>>
NotGCRA == <<idemVars, jwksVars, auditVars, authVars, serverVars,
  consumerVars, verifyVars, loadVars,
  dropVars,
  expiryVars,
  onceVars>>
NotJWKS == <<idemVars, gcraVars, auditVars, authVars, serverVars,
  consumerVars, verifyVars, loadVars,
  dropVars,
  expiryVars,
  onceVars>>
NotAudit == <<idemVars, gcraVars, jwksVars, authVars, serverVars,
  consumerVars, verifyVars, loadVars,
  dropVars,
  expiryVars,
  onceVars>>
NotAuth == <<idemVars, gcraVars, jwksVars, auditVars, serverVars,
  consumerVars, verifyVars, loadVars,
  dropVars,
  expiryVars,
  onceVars>>
NotServer == <<idemVars, gcraVars, jwksVars, auditVars, authVars,
  consumerVars, verifyVars, loadVars,
  dropVars,
  expiryVars,
  onceVars>>
NotConsumer == <<idemVars, gcraVars, jwksVars, auditVars, authVars,
  serverVars, verifyVars, loadVars,
  dropVars,
  expiryVars,
  onceVars>>
NotVerify == <<idemVars, gcraVars, jwksVars, auditVars, authVars,
  serverVars, consumerVars, loadVars,
  dropVars,
  expiryVars,
  onceVars>>
NotLoad == <<idemVars, gcraVars, jwksVars, auditVars, authVars,
  serverVars, consumerVars, verifyVars,
  dropVars,
  expiryVars,
  onceVars>>
NotDrops == <<idemVars, gcraVars, jwksVars, auditVars, authVars, serverVars,
  consumerVars, verifyVars, loadVars,
  expiryVars,
  onceVars>>
NotExpiry == <<idemVars, gcraVars, jwksVars, auditVars, authVars, serverVars,
  consumerVars, verifyVars, loadVars, dropVars,
  onceVars>>
NotOnce == <<idemVars, gcraVars, jwksVars, auditVars, authVars, serverVars,
  consumerVars, verifyVars, loadVars, dropVars, expiryVars>>

(***************************************************************************)
(*                         IDEMPOTENCY GATE                                *)
(***************************************************************************)
Reqs == 1..NReq

Fingerprints == {"F1", "F2"}

\* Who sends a request: an authenticated principal or an anonymous address.
Principals == {"alice", "anon:10.0.0.9"}

\* The value of the X-Idempotency-Key header that the requests carry.
ClientKey == "abc"

\* A storage key made of the principal and the client key.
redisKeyScoped(principal, key) == <<"idempotency:v1", principal, key>>

\* fmt.Sprintf("idempotency:v1:%s", key): the key of the record in the store.
redisKey(principal, key) == <<"idempotency:v1", key>>

\* The storage keys the requests of the model can address.
RedisKeys == {redisKey(p, ClientKey) : p \in Principals}

\* Responses a business handler may produce, one of each class the
\* post-process tells apart: status, Content-Type, body.
HandlerOutputs ==
  { [status |-> 201, content_type |-> "application/json", body |-> "id-x"],
    [status |-> 400, content_type |-> "application/json", body |-> "bad"],
    [status |-> 500, content_type |-> "text/plain",       body |-> "boom"] }

\* TTLs of the key: the PROCESSING lease and the replay window.
lockTTL == "lockTTL"
cacheTTL == "cacheTTL"

\* A key that does not exist: every HMGET field is nil.
NoRec == [status |-> "nil", hash |-> "nil", body |-> "nil",
          content_type |-> "nil", ttl |-> "none"]

NoResp == [status |-> 0, content_type |-> "", body |-> "", hit |-> FALSE,
           retry_after |-> ""]

NoOut == [status |-> 0, content_type |-> "", body |-> ""]

\* http.Error(w, msg, code): a plain-text error response.
HttpError(code, retry) ==
  [status |-> code, content_type |-> "text/plain; charset=utf-8",
   body |-> "error", hit |-> FALSE, retry_after |-> retry]

\* A Go map lookup of a hash field that HGETALL did not return yields "".
MapGet(v) == IF v = "nil" THEN "" ELSE v

\* The claim script when it forgets to write the record (a check without a set).
luaIdempotencyLockNoWrite(cur, status, ttl, hash) ==
  IF cur.status = "nil" THEN [ret |-> 0, rec |-> cur]
  ELSE IF cur.status = "PROCESSING" THEN [ret |-> 1, rec |-> cur]
  ELSE IF cur.status = "COMPLETED"
       THEN [ret |-> IF cur.hash = hash THEN 2 ELSE 3, rec |-> cur]
  ELSE [ret |-> 1, rec |-> cur]

\* The Lua script, run atomically by the store: the value returned and the
\* record it leaves.
luaIdempotencyLock(cur, status, ttl, hash) ==
  IF cur.status = "nil"
  THEN [ret |-> 0,
        rec |-> [cur EXCEPT !.status = status, !.hash = hash, !.ttl = ttl]]
  ELSE IF cur.status = "PROCESSING" THEN [ret |-> 1, rec |-> cur]
  ELSE IF cur.status = "COMPLETED"
       THEN [ret |-> IF cur.hash = hash THEN 2 ELSE 3, rec |-> cur]
  ELSE [ret |-> 1, rec |-> cur]

\* The names of the script's return values (0..3).
Outcome(ret) ==
  CASE ret = 0 -> "CLAIMED"
    [] ret = 1 -> "IN_PROGRESS"
    [] ret = 2 -> "FINGERPRINT_MATCH"
    [] ret = 3 -> "FINGERPRINT_CONFLICT"

\* The storage key of request r.
KeyOf(r) == redisKey(who[r], ClientKey)

\* The store and the requests before any request has arrived.
IdemStart ==
  /\ rec = [k \in RedisKeys |-> NoRec]
  /\ pc = [r \in Reqs |-> "idle"]
  /\ fp = [r \in Reqs |-> "none"]
  /\ res = [r \in Reqs |-> "none"]
  /\ out = [r \in Reqs |-> NoOut]
  /\ resp = [r \in Reqs |-> NoResp]
  /\ epoch = 0
  /\ claimEpoch = [r \in Reqs |-> -1]
  /\ sawAbsent = [r \in Reqs |-> FALSE]
  /\ stored = [r \in Reqs |-> "none"]
  /\ owner = [k \in RedisKeys |-> 0]

\* The methods of the requests, and a request as the gate sees it: its
\* method and the value of its Idempotency-Key header, "" when it has none.
Methods == {"GET", "HEAD", "OPTIONS", "POST"}
Requests == [method : Methods, key : {"", ClientKey}]
Unsafe == [method |-> "POST", key |-> ClientKey]

\* The requests of one principal, all POST with the key header.
InitIdem ==
  /\ who = [r \in Reqs |-> "alice"]
  /\ hreq = [r \in Reqs |-> Unsafe]
  /\ IdemStart

\* The requests of one principal, of any method, with the key header or
\* without; the first one is a POST with the header.
InitMethods ==
  /\ who = [r \in Reqs |-> "alice"]
  /\ hreq \in [Reqs -> Requests]
  /\ hreq[1] = Unsafe
  /\ IdemStart

\* The requests of several principals; the first one is alice's.
InitTenants ==
  /\ who \in [Reqs -> Principals]
  /\ who[1] = "alice"
  /\ hreq = [r \in Reqs |-> Unsafe]
  /\ IdemStart

\* A gate that fails open: on a script error the request goes on to the
\* handler.
ClaimStoreErrorFailOpen(r, f) ==
  /\ pc[r] = "idle"
  /\ fp' = [fp EXCEPT ![r] = f]
  /\ res' = [res EXCEPT ![r] = "err"]
  /\ pc' = [pc EXCEPT ![r] = "handler"]
  /\ UNCHANGED <<rec, out, resp, epoch, claimEpoch, sawAbsent, stored, owner,
                 who, hreq>>
  /\ UNCHANGED NotIdem

\* The script call failed: the gate answers 503 and returns.
ClaimStoreError(r, f) ==
  /\ pc[r] = "idle"
  /\ fp' = [fp EXCEPT ![r] = f]
  /\ res' = [res EXCEPT ![r] = "err"]
  /\ resp' = [resp EXCEPT ![r] = HttpError(503, "")]
  /\ pc' = [pc EXCEPT ![r] = "done"]
  /\ UNCHANGED <<rec, out, epoch, claimEpoch, sawAbsent, stored, owner, who, hreq>>
  /\ UNCHANGED NotIdem

\* The script call succeeded: the switch on its result.
ClaimRun(r, f) ==
  /\ pc[r] = "idle"
  /\ LET s == luaIdempotencyLock(rec[KeyOf(r)], "PROCESSING", lockTTL, f) IN
       /\ rec' = [rec EXCEPT ![KeyOf(r)] = s.rec]
       /\ fp' = [fp EXCEPT ![r] = f]
       /\ res' = [res EXCEPT ![r] = Outcome(s.ret)]
       /\ claimEpoch' = [claimEpoch EXCEPT ![r] = epoch]
       /\ sawAbsent' = [sawAbsent EXCEPT ![r] = (rec[KeyOf(r)] = NoRec)]
       /\ CASE s.ret = 1 ->
                 /\ resp' = [resp EXCEPT ![r] = HttpError(429, "5")]
                 /\ pc' = [pc EXCEPT ![r] = "done"]
            [] s.ret = 2 ->
                 /\ resp' = resp
                 /\ pc' = [pc EXCEPT ![r] = "replay"]
            [] s.ret = 3 ->
                 /\ resp' = [resp EXCEPT ![r] = HttpError(409, "")]
                 /\ pc' = [pc EXCEPT ![r] = "done"]
            [] OTHER ->
                 /\ resp' = resp
                 /\ pc' = [pc EXCEPT ![r] = "handler"]
  /\ UNCHANGED <<out, epoch, stored, owner, who, hreq>>
  /\ UNCHANGED NotIdem

\* Steps 1-3 of the middleware for a request that carries the key header.
\* The requests are interchangeable, and so are the fingerprints: the
\* requests are numbered in the order in which they reach the script, and
\* the payload of the first one is the one that hashes to F1.
Claim(r) ==
  /\ hreq[r].key # ""
  /\ \A q \in Reqs : q < r => pc[q] # "idle"
  /\ \E f \in Fingerprints :
       /\ (r = 1) => (f = "F1")
       /\ ClaimStoreError(r, f) \/ ClaimRun(r, f)

\* key == "": next.ServeHTTP(w, r) and return; the handler's output goes to
\* the client.
NoKeyHeader(r) ==
  /\ hreq[r].key = ""
  /\ pc[r] = "idle"
  /\ \A q \in Reqs : q < r => pc[q] # "idle"
  /\ \E o \in HandlerOutputs :
       /\ out' = [out EXCEPT ![r] = o]
       /\ resp' = [resp EXCEPT ![r] =
                     [status |-> o.status, content_type |-> o.content_type,
                      body |-> o.body, hit |-> FALSE, retry_after |-> ""]]
  /\ pc' = [pc EXCEPT ![r] = "done"]
  /\ UNCHANGED <<rec, fp, res, epoch, claimEpoch, sawAbsent, stored, owner,
                 who, hreq>>
  /\ UNCHANGED NotIdem

\* case 2: HGETALL of the key as it is now, then the replayed response.
Replay(r) ==
  /\ pc[r] = "replay"
  /\ \/ resp' = [resp EXCEPT ![r] = HttpError(500, "")]
     \/ resp' = [resp EXCEPT ![r] =
                   [status |-> 200,
                    content_type |-> MapGet(rec[KeyOf(r)].content_type),
                    body |-> MapGet(rec[KeyOf(r)].body),
                    hit |-> TRUE, retry_after |-> ""]]
  /\ pc' = [pc EXCEPT ![r] = "done"]
  /\ UNCHANGED <<rec, fp, res, out, epoch, claimEpoch, sawAbsent, stored,
                 owner, who, hreq>>
  /\ UNCHANGED NotIdem

\* next.ServeHTTP(writer, r): the handler's output goes to the client and
\* into the idempotencyWriter.
HandlerReturn(r) ==
  /\ pc[r] = "handler"
  /\ \E o \in HandlerOutputs :
       /\ out' = [out EXCEPT ![r] = o]
       /\ resp' = [resp EXCEPT ![r] =
                     [status |-> o.status, content_type |-> o.content_type,
                      body |-> o.body, hit |-> FALSE, retry_after |-> ""]]
  /\ pc' = [pc EXCEPT ![r] = "post"]
  /\ UNCHANGED <<rec, fp, res, epoch, claimEpoch, sawAbsent, stored, owner,
                 who, hreq>>
  /\ UNCHANGED NotIdem

\* pipe.HSet(status, body, content_type) and pipe.Expire(cacheTTL): HSET
\* creates the key when it has disappeared and leaves the other fields.
StoreResponse(cur, o) ==
  [cur EXCEPT !.status = "COMPLETED", !.body = o.body,
              !.content_type = o.content_type, !.ttl = cacheTTL]

\* Whether the post-process stores the response of a handler status.
IsSuccess(status) == status >= 200 /\ status < 300

\* 4. Post-Process; storeOk is whether the store commands went through
\* (their errors are discarded).
PostProcess(r) ==
  /\ pc[r] = "post"
  /\ \E storeOk \in BOOLEAN :
       /\ stored' = [stored EXCEPT ![r] = IF storeOk THEN "ok" ELSE "failed"]
       /\ IF ~storeOk
          THEN UNCHANGED <<rec, epoch, owner>>
          ELSE IF IsSuccess(out[r].status)
          THEN /\ rec' = [rec EXCEPT ![KeyOf(r)] = StoreResponse(@, out[r])]
               /\ owner' = [owner EXCEPT ![KeyOf(r)] = r]
               /\ epoch' = epoch
          ELSE /\ rec' = [rec EXCEPT ![KeyOf(r)] = NoRec]
               /\ owner' = [owner EXCEPT ![KeyOf(r)] = 0]
               /\ epoch' = IF rec[KeyOf(r)] = NoRec THEN epoch ELSE epoch + 1
  /\ pc' = [pc EXCEPT ![r] = "done"]
  /\ UNCHANGED <<fp, res, out, resp, claimEpoch, sawAbsent, who, hreq>>
  /\ UNCHANGED NotIdem

\* The store drops key k, whose TTL has run out.
ExpireKey(k) ==
  /\ rec[k] # NoRec
  /\ rec[k].ttl # "none"
  /\ rec' = [rec EXCEPT ![k] = NoRec]
  /\ owner' = [owner EXCEPT ![k] = 0]
  /\ epoch' = epoch + 1
  /\ UNCHANGED <<pc, fp, res, out, resp, claimEpoch, sawAbsent, stored, who, hreq>>
  /\ UNCHANGED NotIdem

Expire == \E k \in RedisKeys : ExpireKey(k)

NextIdem ==
  \/ \E r \in Reqs : Claim(r)
  \/ \E r \in Reqs : Replay(r)
  \/ \E r \in Reqs : HandlerReturn(r)
  \/ \E r \in Reqs : PostProcess(r)
  \/ Expire

\* The middleware for requests with and without the key header.
NextMethods ==
  \/ NextIdem
  \/ \E r \in Reqs : NoKeyHeader(r)

(***************************************************************************)
(*                            RATE GATE (GCRA)                             *)
(* The clock counts ticks of 1/TicksPerSec second.  The script's times     *)
(* (now_ts, tat, new_tat, allow_at) are kept multiplied by rate, so that   *)
(* emission_interval = period / rate is the integer PeriodTicks and the    *)
(* arithmetic is exact.                                                    *)
(***************************************************************************)
TicksPerSec == 2
PeriodSec == 1
PeriodTicks == PeriodSec * TicksPerSec

Rates == {1, 2}
Bursts == 0..MaxBurst

CeilDiv(a, b) == (a + b - 1) \div b

Max(a, b) == IF a >= b THEN a ELSE b

\* No key: GET returns nil.
NoKey == [tat |-> -1, expireAt |-> -1]

\* What GET returns at time now: the stored tat, or nil (-1) once the TTL of
\* the key has run out.
GetTat(key, now) ==
  IF key = NoKey \/ now > key.expireAt THEN -1 ELSE key.tat

\* SET key new_tat EX ceil(period * 2).
SetTat(newTat, now) ==
  [tat |-> newTat, expireAt |-> now + 2 * PeriodTicks]

\* A script that admits only when allow_at lies before now_ts.
luaGCRAStrict(key, now, rate, burst) ==
  LET now_ts == now * rate
      got == GetTat(key, now)
      tat == Max(now_ts, IF got = -1 THEN now_ts ELSE got)
      new_tat == tat + PeriodTicks
      allow_at == new_tat - burst * PeriodTicks
  IN  IF allow_at < now_ts
      THEN [ret |-> -1, key |-> SetTat(new_tat, now)]
      ELSE [ret |-> CeilDiv(allow_at - now_ts, rate * TicksPerSec),
            key |-> key]

\* The Lua script: the value it returns and the key it leaves.
luaGCRA(key, now, rate, burst) ==
  LET now_ts == now * rate
      got == GetTat(key, now)
      tat == Max(now_ts, IF got = -1 THEN now_ts ELSE got)
      new_tat == tat + PeriodTicks
      allow_at == new_tat - burst * PeriodTicks
  IN  IF allow_at <= now_ts
      THEN [ret |-> -1, key |-> SetTat(new_tat, now)]
      ELSE [ret |-> CeilDiv(allow_at - now_ts, rate * TicksPerSec),
            key |-> key]

Min(a, b) == IF a <= b THEN a ELSE b

\* rate.NewLimiter(rate.Limit(rps*2), burst*2): the refill per tick, the
\* capacity and the cost of one request, in 1/TicksPerSec of a token.
EmergencyRefill(rate) == 2 * rate
EmergencyCapacity(burst) == 2 * burst * TicksPerSec
TokenCost == TicksPerSec

\* emergencyLimiter.Allow() at time now: the tokens are topped up for the
\* time elapsed, capped at the capacity; with a whole token left the request
\* is allowed and pays it, otherwise the limiter is left as it was.
emergencyAllow(tokens, last, now, rate, burst) ==
  LET filled == Min(EmergencyCapacity(burst),
                    tokens + (now - last) * EmergencyRefill(rate))
  IN  IF filled >= TokenCost
      THEN [ok |-> TRUE, tokens |-> filled - TokenCost, last |-> now]
      ELSE [ok |-> FALSE, tokens |-> tokens, last |-> last]

\* gRPC status codes.
GrpcOK == 0
GrpcResourceExhausted == 8

\* The gate of one identity before its first request; the emergency limiter
\* starts full.
GCRAStart ==
  /\ gNow = 0
  /\ gKey = NoKey
  /\ gAdmits = <<>>
  /\ gLast = 0
  /\ gErr = FALSE
  /\ gStatus = -1
  /\ gServed = FALSE
  /\ gFallback = FALSE
  /\ eTokens = EmergencyCapacity(gBurst)
  /\ eLast = 0

\* The remote counter is reachable.
InitGCRA ==
  /\ gRate \in Rates
  /\ gBurst \in Bursts
  /\ gOutage = FALSE
  /\ GCRAStart

\* The remote counter is unreachable.
InitOutage ==
  /\ gRate \in Rates
  /\ gBurst \in Bursts
  /\ gOutage = TRUE
  /\ GCRAStart

\* The remote counter is reachable or not.
InitGRPC ==
  /\ gRate \in Rates
  /\ gBurst \in Bursts
  /\ gOutage \in BOOLEAN
  /\ GCRAStart

IdleGCRA ==
  /\ gRate = 1
  /\ gBurst = 1
  /\ gOutage = FALSE
  /\ GCRAStart

\* Time passes on the clock.
GTick ==
  /\ gNow < MaxTime
  /\ gNow' = gNow + 1
  /\ UNCHANGED <<gRate, gBurst, gKey, gAdmits, gLast, gOutage, gErr, gStatus,
                 gServed, gFallback, eTokens, eLast>>
  /\ UNCHANGED NotGCRA

\* The script ran: 429 with Retry-After when it returns res >= 0, otherwise
\* the next handler.
RateLimitRemote ==
  /\ ~gOutage
  /\ Len(gAdmits) < MaxAdmits
  /\ LET s == luaGCRA(gKey, gNow, gRate, gBurst) IN
       /\ gKey' = s.key
       /\ gLast' = s.ret
       /\ gAdmits' = IF s.ret >= 0 THEN gAdmits ELSE Append(gAdmits, gNow)
       /\ gStatus' = IF s.ret >= 0 THEN 429 ELSE 200
       /\ gServed' = (s.ret < 0)
  /\ gErr' = FALSE
  /\ gFallback' = FALSE
  /\ UNCHANGED <<eTokens, eLast>>

\* A fallback that admits every request when the script fails.
RateLimitFallbackFailOpen ==
  /\ gOutage
  /\ gErr' = TRUE
  /\ gStatus' = 200
  /\ gServed' = TRUE
  /\ gFallback' = FALSE
  /\ UNCHANGED <<gKey, gLast, gAdmits, eTokens, eLast>>

\* The script failed: the emergency limiter decides; 503 with
\* X-RateLimit-Fallback when it does not allow, otherwise the next handler.
RateLimitFallback ==
  /\ gOutage
  /\ gErr' = TRUE
  /\ LET a == emergencyAllow(eTokens, eLast, gNow, gRate, gBurst) IN
       /\ eTokens' = a.tokens
       /\ eLast' = a.last
       /\ gStatus' = IF a.ok THEN 200 ELSE 503
       /\ gServed' = a.ok
       /\ gFallback' = ~a.ok
  /\ UNCHANGED <<gKey, gLast, gAdmits>>

\* One request of the identity through the HTTP middleware (rps > 0).
RateLimit ==
  /\ gRate > 0
  /\ RateLimitRemote \/ RateLimitFallback
  /\ UNCHANGED <<gRate, gBurst, gNow, gOutage>>
  /\ UNCHANGED NotGCRA

\* An interceptor that consults the emergency limiter when the script fails.
GRPCFallbackLimited ==
  /\ gOutage
  /\ gErr' = TRUE
  /\ LET a == emergencyAllow(eTokens, eLast, gNow, gRate, gBurst) IN
       /\ eTokens' = a.tokens
       /\ eLast' = a.last
       /\ gStatus' = IF a.ok THEN GrpcOK ELSE GrpcResourceExhausted
       /\ gServed' = a.ok
  /\ gFallback' = FALSE
  /\ UNCHANGED <<gKey, gLast, gAdmits>>

\* The script failed on the RPC path: return handler(ctx, req).
GRPCFallback ==
  /\ gOutage
  /\ gErr' = TRUE
  /\ gStatus' = GrpcOK
  /\ gServed' = TRUE
  /\ gFallback' = FALSE
  /\ UNCHANGED <<gKey, gLast, gAdmits, eTokens, eLast>>

\* The script ran on the RPC path, on the key rl:grpc:<identity>:
\* ResourceExhausted when it returns res >= 0, otherwise the handler.
GRPCRemote ==
  /\ ~gOutage
  /\ Len(gAdmits) < MaxAdmits
  /\ LET s == luaGCRA(gKey, gNow, gRate, gBurst) IN
       /\ gKey' = s.key
       /\ gLast' = s.ret
       /\ gAdmits' = IF s.ret >= 0 THEN gAdmits ELSE Append(gAdmits, gNow)
       /\ gStatus' = IF s.ret >= 0 THEN GrpcResourceExhausted ELSE GrpcOK
       /\ gServed' = (s.ret < 0)
  /\ gErr' = FALSE
  /\ gFallback' = FALSE
  /\ UNCHANGED <<eTokens, eLast>>

\* One unary call of the identity through the interceptor (rate > 0).
GRPCRateLimitInterceptor ==
  /\ gRate > 0
  /\ GRPCRemote \/ GRPCFallback
  /\ UNCHANGED <<gRate, gBurst, gNow, gOutage>>
  /\ UNCHANGED NotGCRA

NextGCRA == GTick \/ RateLimit

NextGRPC == GTick \/ GRPCRateLimitInterceptor

(***************************************************************************)
(*                         JWKS CACHING CLIENT                             *)
(***************************************************************************)
Verifiers == {"v1", "v2"}
Callers == {"ticker"} \cup Verifiers

\* The kids of the tokens presented to VerifyToken.
TokenKids == {"k1", "k2"}

\* The keys a JWKS document may list; good is whether toRSAPublicKey
\* converts n and e.
JWKUniverse ==
  { [kty |-> "RSA", use |-> "sig", kid |-> "k1", good |-> TRUE],
    [kty |-> "RSA", use |-> "sig", kid |-> "k2", good |-> TRUE],
    [kty |-> "RSA", use |-> "enc", kid |-> "k3", good |-> TRUE],
    [kty |-> "EC",  use |-> "sig", kid |-> "k4", good |-> TRUE],
    [kty |-> "RSA", use |-> "sig", kid |-> "",   good |-> TRUE],
    [kty |-> "RSA", use |-> "sig", kid |-> "k5", good |-> FALSE] }

\* What the endpoint answers to one GET: a transport error, a status other
\* than 200 or an undecodable body (ok = FALSE), or a key set.
NoAnswer == [ok |-> FALSE, keys |-> {}]
EndpointAnswers ==
  {NoAnswer} \cup {[ok |-> TRUE, keys |-> K] : K \in SUBSET JWKUniverse}

\* The kids fetchKeys puts into newCache.
ValidKids(keys) ==
  { j.kid : j \in { k \in keys : /\ k.kty = "RSA" /\ k.use = "sig"
                                 /\ k.kid # "" /\ k.good } }

\* fetchKeys that replaces the cache whatever the number of valid keys.
fetchKeysNoEmptyCheck(cache, ans) ==
  IF ~ans.ok THEN [err |-> "fetch", cache |-> cache]
  ELSE [err |-> "none", cache |-> ValidKids(ans.keys)]

\* fetchKeys: the error it returns and the cache it leaves.
fetchKeys(cache, ans) ==
  IF ~ans.ok THEN [err |-> "fetch", cache |-> cache]
  ELSE IF ValidKids(ans.keys) = {} THEN [err |-> "zero_keys", cache |-> cache]
  ELSE [err |-> "none", cache |-> ValidKids(ans.keys)]

JWKSIdle ==
  /\ jState = "new"
  /\ jInitErr = "not run"
  /\ jCache = {}
  /\ jPc = [c \in Callers |-> "idle"]
  /\ jKid = [c \in Callers |-> ""]
  /\ jJoined = [c \in Callers |-> 0]
  /\ jRes = [c \in Callers |-> "none"]
  /\ jVerdict = [c \in Callers |-> "none"]
  /\ sfCall = 0
  /\ jCalls = 0
  /\ jFetchResult = [i \in 1..MaxFetches |-> "pending"]
  /\ jServedK2 = TRUE

\* NewJWKSCachingClient: the mandatory arguments, then the initial fetch;
\* the refresher goroutine starts only when it succeeded.
NewJWKSCachingClient ==
  /\ jState = "new"
  /\ \E argsOk \in BOOLEAN, ans \in EndpointAnswers :
       IF ~argsOk
       THEN /\ jState' = "failed"
            /\ UNCHANGED <<jInitErr, jCache>>
       ELSE LET f == fetchKeys(jCache, ans) IN
              /\ jInitErr' = f.err
              /\ jCache' = f.cache
              /\ jState' = IF f.err = "none" THEN "ready" ELSE "failed"
  /\ UNCHANGED <<jPc, jKid, jJoined, jRes, jVerdict, sfCall, jCalls,
                 jFetchResult, jServedK2>>
  /\ UNCHANGED NotJWKS

\* doRefresh that calls fetchKeys without going through the group.
doRefreshNoSingleflight(c) ==
  /\ jCalls < MaxFetches
  /\ jCalls' = jCalls + 1
  /\ jJoined' = [jJoined EXCEPT ![c] = jCalls + 1]
  /\ jPc' = [jPc EXCEPT ![c] = "fetching"]
  /\ UNCHANGED sfCall

\* doRefresh: c.sf.Do("refresh_keys", fetchKeys).  The first caller starts
\* the fetch; a caller that finds a call in flight waits for its result.
doRefresh(c) ==
  IF sfCall = 0
  THEN /\ jCalls < MaxFetches
       /\ jCalls' = jCalls + 1
       /\ sfCall' = jCalls + 1
       /\ jJoined' = [jJoined EXCEPT ![c] = jCalls + 1]
       /\ jPc' = [jPc EXCEPT ![c] = "fetching"]
  ELSE /\ jJoined' = [jJoined EXCEPT ![c] = sfCall]
       /\ jPc' = [jPc EXCEPT ![c] = "waiting"]
       /\ UNCHANGED <<sfCall, jCalls>>

\* startKeyRefresher: a tick of the ticker.
Tick ==
  /\ jState = "ready"
  /\ jPc["ticker"] = "idle"
  /\ doRefresh("ticker")
  /\ UNCHANGED <<jState, jInitErr, jCache, jKid, jRes, jVerdict,
                 jFetchResult, jServedK2>>
  /\ UNCHANGED NotJWKS

\* VerifyToken, the key function: the cache lookup under the read lock.
VerifyToken(v) ==
  /\ jState = "ready"
  /\ jPc[v] = "idle"
  /\ \E kid \in TokenKids :
       /\ jKid' = [jKid EXCEPT ![v] = kid]
       /\ IF kid \in jCache
          THEN /\ jVerdict' = [jVerdict EXCEPT ![v] = "key"]
               /\ jPc' = [jPc EXCEPT ![v] = "done"]
          ELSE /\ jPc' = [jPc EXCEPT ![v] = "miss"]
               /\ UNCHANGED jVerdict
  /\ UNCHANGED <<jState, jInitErr, jCache, jJoined, jRes, sfCall, jCalls,
                 jFetchResult, jServedK2>>
  /\ UNCHANGED NotJWKS

\* VerifyToken after a miss: c.doRefresh(context.Background()).
VerifyMiss(v) ==
  /\ v \in Verifiers
  /\ jPc[v] = "miss"
  /\ doRefresh(v)
  /\ UNCHANGED <<jState, jInitErr, jCache, jKid, jRes, jVerdict, jFetchResult, jServedK2>>
  /\ UNCHANGED NotJWKS

\* The fetch of the call that c leads returns: fetchKeys finishes, the group
\* forgets the call and hands its result to the leader and to every waiter.
FetchDone(c) ==
  /\ jPc[c] = "fetching"
  /\ \E ans \in EndpointAnswers :
       LET f == fetchKeys(jCache, ans)
           id == jJoined[c]
           sharers == {d \in Callers : /\ jJoined[d] = id
                                       /\ jPc[d] \in {"fetching", "waiting"}}
       IN  /\ jCache' = f.cache
           /\ jFetchResult' = [jFetchResult EXCEPT ![id] = f.err]
           /\ jServedK2' = /\ jServedK2
                           /\ ans.ok
                           /\ "k2" \in ValidKids(ans.keys)
           /\ jRes' = [d \in Callers |->
                         IF d \in sharers THEN f.err ELSE jRes[d]]
           /\ jPc' = [d \in Callers |->
                        IF d \in sharers THEN "back" ELSE jPc[d]]
           /\ sfCall' = IF sfCall = id THEN 0 ELSE sfCall
  /\ UNCHANGED <<jState, jInitErr, jKid, jJoined, jVerdict, jCalls>>
  /\ UNCHANGED NotJWKS

\* doRefresh has returned to the ticker: the result is logged.
TickDone ==
  /\ jPc["ticker"] = "back"
  /\ jPc' = [jPc EXCEPT !["ticker"] = "idle"]
  /\ UNCHANGED <<jState, jInitErr, jCache, jKid, jJoined, jRes, jVerdict,
                 sfCall, jCalls, jFetchResult, jServedK2>>
  /\ UNCHANGED NotJWKS

\* doRefresh has returned to VerifyToken: the retry of the lookup.
VerifyAfterRefresh(v) ==
  /\ v \in Verifiers
  /\ jPc[v] = "back"
  /\ jVerdict' = [jVerdict EXCEPT ![v] =
                    IF jRes[v] # "none" THEN "failed key refresh"
                    ELSE IF jKid[v] \in jCache THEN "key"
                    ELSE "kid not found"]
  /\ jPc' = [jPc EXCEPT ![v] = "done"]
  /\ UNCHANGED <<jState, jInitErr, jCache, jKid, jJoined, jRes, sfCall,
                 jCalls, jFetchResult, jServedK2>>
  /\ UNCHANGED NotJWKS

NextJWKS ==
  \/ NewJWKSCachingClient
  \/ Tick
  \/ TickDone
  \/ \E v \in Verifiers : VerifyToken(v)
  \/ \E v \in Verifiers : VerifyMiss(v)
  \/ \E v \in Verifiers : VerifyAfterRefresh(v)
  \/ \E c \in Callers : FetchDone(c)

(***************************************************************************)
(*                         ASYNC AUDIT WRITER                              *)
(* Log call n logs event n.  The clock counts ticks of 30 s; lastLogTime   *)
(* starts at time.Unix(0, 0), long before the clock's tick 0.              *)
(***************************************************************************)
TicksPerMinute == 2
UnixZero == 0 - 1000

\* The callers of Close.
Closers == {"c1", "c2"}

AuditStart ==
  /\ aQueue = <<>>
  /\ aClosed = FALSE
  /\ aCloses = 0
  /\ aClose = [c \in Closers |-> "open"]
  /\ aWorker = "recv"
  /\ aHand = 0
  /\ aSink = <<>>
  /\ aLogged = 0
  /\ aPending = 0
  /\ aCtx = "live"
  /\ aRet = [e \in 1..MaxLog |-> "none"]
  /\ aDropped = {}
  /\ aFailed = {}
  /\ aPanicked = FALSE
  /\ aDropCount = 0
  /\ aLastLog = UnixZero
  /\ aWarns = <<>>
  /\ aNow = 0

\* NewAsyncLogger(w, bufferSize, blockOnFull, logger).
InitAudit == aBlockOnFull \in BOOLEAN /\ AuditStart

AuditIdle == aBlockOnFull = FALSE /\ AuditStart

\* handleDrop(action): count the drop; at most once a minute swap the counter
\* to zero and emit the summary.
handleDrop ==
  IF aNow - aLastLog > TicksPerMinute
  THEN /\ aLastLog' = aNow
       /\ aDropCount' = 0
       /\ aWarns' = Append(aWarns, aDropCount + 1)
  ELSE /\ aDropCount' = aDropCount + 1
       /\ UNCHANGED <<aLastLog, aWarns>>

\* case l.events <- event: return nil.
Enqueue(e) ==
  /\ aQueue' = Append(aQueue, e)
  /\ aRet' = [aRet EXCEPT ![e] = "nil"]
  /\ UNCHANGED <<aDropped, aPanicked, aDropCount, aLastLog, aWarns>>

\* The drop path: handleDrop, then the error err is returned.
DropPath(e, err) ==
  /\ aDropped' = aDropped \cup {e}
  /\ aRet' = [aRet EXCEPT ![e] = err]
  /\ handleDrop
  /\ UNCHANGED <<aQueue, aPanicked>>

\* A send on the closed channel panics.
SendOnClosed(e) ==
  /\ aPanicked' = TRUE
  /\ aRet' = [aRet EXCEPT ![e] = "panic"]
  /\ UNCHANGED <<aQueue, aDropped, aDropCount, aLastLog, aWarns>>

\* A Log call begins.  In availability mode the select has a default case
\* and the call ends at once: the event is enqueued if there is room and
\* dropped otherwise.  In integrity mode the call enters the select on the
\* send and on ctx.Done(); its context may be cancelled already.
Log ==
  /\ aLogged < MaxLog
  /\ aPending = 0
  /\ aLogged' = aLogged + 1
  /\ LET e == aLogged + 1 IN
       IF aBlockOnFull
       THEN /\ aPending' = e
            /\ aCtx' \in {"live", "cancelled"}
            /\ UNCHANGED <<aQueue, aRet, aDropped, aPanicked, aDropCount,
                           aLastLog, aWarns>>
       ELSE /\ UNCHANGED <<aPending, aCtx>>
            /\ IF aClosed THEN SendOnClosed(e)
               ELSE IF Len(aQueue) < BufferSize
                    THEN Enqueue(e)
                    ELSE DropPath(e, "ErrAuditBufferFull")
  /\ UNCHANGED <<aBlockOnFull, aClosed, aCloses, aClose, aWorker, aHand, aSink,
                 aFailed, aNow>>
  /\ UNCHANGED NotAudit

\* The context of the blocked Log call is cancelled.
Cancel ==
  /\ aPending # 0
  /\ aCtx = "live"
  /\ aCtx' = "cancelled"
  /\ UNCHANGED <<aBlockOnFull, aQueue, aClosed, aCloses, aClose, aWorker,
                 aHand, aSink, aLogged, aPending, aRet, aDropped, aFailed,
                 aPanicked, aDropCount, aLastLog, aWarns, aNow>>
  /\ UNCHANGED NotAudit

\* Integrity mode, case l.events <- event: there is room in the channel.
LogSend ==
  /\ aPending # 0
  /\ ~aClosed
  /\ Len(aQueue) < BufferSize
  /\ Enqueue(aPending)
  /\ aPending' = 0
  /\ UNCHANGED <<aBlockOnFull, aClosed, aCloses, aClose, aWorker, aHand, aSink,
                 aLogged, aCtx, aFailed, aNow>>
  /\ UNCHANGED NotAudit

\* An integrity mode that gives up on a full channel without waiting for the
\* cancellation.
LogDropWhileLive ==
  /\ aPending # 0
  /\ Len(aQueue) >= BufferSize
  /\ DropPath(aPending, "ctx.Err")
  /\ aPending' = 0
  /\ UNCHANGED <<aBlockOnFull, aClosed, aCloses, aClose, aWorker, aHand, aSink,
                 aLogged, aCtx, aFailed, aNow>>
  /\ UNCHANGED NotAudit

\* Integrity mode, case <-ctx.Done(): handleDrop, return ctx.Err().
LogCancelled ==
  /\ aPending # 0
  /\ aCtx = "cancelled"
  /\ DropPath(aPending, "ctx.Err")
  /\ aPending' = 0
  /\ UNCHANGED <<aBlockOnFull, aClosed, aCloses, aClose, aWorker, aHand, aSink,
                 aLogged, aCtx, aFailed, aNow>>
  /\ UNCHANGED NotAudit

\* Integrity mode: the channel is closed while the call is in the select.
LogPanic ==
  /\ aPending # 0
  /\ aClosed
  /\ SendOnClosed(aPending)
  /\ aPending' = 0
  /\ UNCHANGED <<aBlockOnFull, aClosed, aCloses, aClose, aWorker, aHand, aSink,
                 aLogged, aCtx, aFailed, aNow>>
  /\ UNCHANGED NotAudit

\* worker: for event := range l.events.
WorkerRecv ==
  /\ aWorker = "recv"
  /\ aQueue # <<>>
  /\ aHand' = Head(aQueue)
  /\ aQueue' = Tail(aQueue)
  /\ aWorker' = "encode"
  /\ UNCHANGED <<aBlockOnFull, aClosed, aCloses, aClose, aSink, aLogged,
                 aPending, aCtx, aRet, aDropped, aFailed, aPanicked,
                 aDropCount, aLastLog, aWarns, aNow>>
  /\ UNCHANGED NotAudit

\* worker: encoder.Encode(event); an error is logged and the loop goes on.
WorkerEncode ==
  /\ aWorker = "encode"
  /\ \/ /\ aSink' = Append(aSink, aHand)
        /\ UNCHANGED aFailed
     \/ /\ aFailed' = aFailed \cup {aHand}
        /\ UNCHANGED aSink
  /\ aHand' = 0
  /\ aWorker' = "recv"
  /\ UNCHANGED <<aBlockOnFull, aQueue, aClosed, aCloses, aClose, aLogged,
                 aPending, aCtx, aRet, aDropped, aPanicked, aDropCount,
                 aLastLog, aWarns, aNow>>
  /\ UNCHANGED NotAudit

\* A worker that leaves the loop as soon as the channel is closed.
WorkerExitNoDrain ==
  /\ aWorker = "recv"
  /\ aClosed
  /\ aWorker' = "exited"
  /\ UNCHANGED <<aBlockOnFull, aQueue, aClosed, aCloses, aClose, aHand, aSink,
                 aLogged, aPending, aCtx, aRet, aDropped, aFailed, aPanicked,
                 aDropCount, aLastLog, aWarns, aNow>>
  /\ UNCHANGED NotAudit

\* worker: the range loop ends when the channel is closed and drained.
WorkerExit ==
  /\ aWorker = "recv"
  /\ aClosed
  /\ aQueue = <<>>
  /\ aWorker' = "exited"
  /\ UNCHANGED <<aBlockOnFull, aQueue, aClosed, aCloses, aClose, aHand, aSink,
                 aLogged, aPending, aCtx, aRet, aDropped, aFailed, aPanicked,
                 aDropCount, aLastLog, aWarns, aNow>>
  /\ UNCHANGED NotAudit

\* A Close that closes the channel on every call: closing the closed channel
\* panics.
CloseCallNoOnce(c) ==
  /\ aClose[c] = "open"
  /\ aClosed' = TRUE
  /\ aCloses' = aCloses + 1
  /\ aPanicked' = (aPanicked \/ aClosed)
  /\ aClose' = [aClose EXCEPT ![c] = "waiting"]
  /\ UNCHANGED <<aBlockOnFull, aQueue, aWorker, aHand, aSink, aLogged,
                 aPending, aCtx, aRet, aDropped, aFailed, aDropCount,
                 aLastLog, aWarns, aNow>>
  /\ UNCHANGED NotAudit

\* Close: l.closeOnce.Do(close(l.events)); only the first call closes.
CloseCall(c) ==
  /\ aClose[c] = "open"
  /\ aClosed' = TRUE
  /\ aCloses' = IF aCloses = 0 THEN 1 ELSE aCloses
  /\ aClose' = [aClose EXCEPT ![c] = "waiting"]
  /\ UNCHANGED <<aBlockOnFull, aQueue, aWorker, aHand, aSink, aLogged,
                 aPending, aCtx, aRet, aDropped, aFailed, aPanicked,
                 aDropCount, aLastLog, aWarns, aNow>>
  /\ UNCHANGED NotAudit

\* A Close that does not wait for the worker.
CloseReturnNoWait(c) ==
  /\ aClose[c] = "waiting"
  /\ aClose' = [aClose EXCEPT ![c] = "returned"]
  /\ UNCHANGED <<aBlockOnFull, aQueue, aClosed, aCloses, aWorker, aHand, aSink,
                 aLogged, aPending, aCtx, aRet, aDropped, aFailed, aPanicked,
                 aDropCount, aLastLog, aWarns, aNow>>
  /\ UNCHANGED NotAudit

\* Close: l.wg.Wait() returns when the worker has exited; return nil.
CloseReturn(c) ==
  /\ aClose[c] = "waiting"
  /\ aWorker = "exited"
  /\ aClose' = [aClose EXCEPT ![c] = "returned"]
  /\ UNCHANGED <<aBlockOnFull, aQueue, aClosed, aCloses, aWorker, aHand, aSink,
                 aLogged, aPending, aCtx, aRet, aDropped, aFailed, aPanicked,
                 aDropCount, aLastLog, aWarns, aNow>>
  /\ UNCHANGED NotAudit

\* Time passes.
ATick ==
  /\ aNow < MaxClock
  /\ aNow' = aNow + 1
  /\ UNCHANGED <<aBlockOnFull, aQueue, aClosed, aCloses, aClose, aWorker,
                 aHand, aSink, aLogged, aPending, aCtx, aRet, aDropped,
                 aFailed, aPanicked, aDropCount, aLastLog, aWarns>>
  /\ UNCHANGED NotAudit

NextAudit ==
  \/ Log
  \/ Cancel
  \/ LogSend
  \/ LogCancelled
  \/ LogPanic
  \/ WorkerRecv
  \/ WorkerEncode
  \/ WorkerExit
  \/ \E c \in Closers : CloseCall(c)
  \/ \E c \in Closers : CloseReturn(c)
  \/ ATick

(***************************************************************************)
(*                      TRUSTED-GATEWAY STRATEGY                           *)
(* Addresses are numbers of V4Bits bits (IPv4) or V6Bits bits (IPv6); a    *)
(* network is a family, a base address and a prefix length.                *)
(***************************************************************************)
AuthReqs == {1, 2}

Bits(fam) == IF fam = "v4" THEN V4Bits ELSE V6Bits

IPs == [fam : {"v4"}, addr : 0..(2^V4Bits - 1)]
         \cup [fam : {"v6"}, addr : 0..(2^V6Bits - 1)]

\* r.RemoteAddr: "ip:port", a string without a port, or a host that is not
\* an IP address.
NoIP == [fam |-> "none", addr |-> 0]
RemoteAddrs ==
  {[hasPort |-> TRUE, isIP |-> TRUE, ip |-> a] : a \in IPs}
    \cup {[hasPort |-> FALSE, isIP |-> FALSE, ip |-> NoIP],
          [hasPort |-> TRUE, isIP |-> FALSE, ip |-> NoIP]}

\* The entries cfg.TrustedProxies may list: CIDR strings, single addresses
\* and a string that is neither.
ProxyEntries ==
  { [kind |-> "cidr", fam |-> "v4", addr |-> 1, len |-> 1],
    [kind |-> "ip",   fam |-> "v4", addr |-> 3, len |-> 0],
    [kind |-> "cidr", fam |-> "v6", addr |-> 6, len |-> V6Bits],
    [kind |-> "ip",   fam |-> "v6", addr |-> 5, len |-> 0],
    [kind |-> "junk", fam |-> "none", addr |-> 0, len |-> 0] }

\* The network of address addr and prefix length len: the base is masked.
Network(fam, addr, len) ==
  [fam |-> fam, len |-> len,
   base |-> (addr \div 2^(Bits(fam) - len)) * 2^(Bits(fam) - len)]

\* net.ParseCIDR(cidr), and for a single address net.ParseCIDR(cidr + "/32"):
\* the prefix length of the fallback is that of an IPv4 host route.
ParseEntry(e) ==
  IF e.kind = "cidr" THEN Network(e.fam, e.addr, e.len)
  ELSE Network(e.fam, e.addr, V4Bits)

\* cidr.Contains(ip).
Contains(n, ip) ==
  /\ n.fam = ip.fam
  /\ (ip.addr \div 2^(Bits(n.fam) - n.len)) * 2^(Bits(n.fam) - n.len) = n.base

\* The identity headers of a request; the roles header is given as its
\* comma-separated items.
HeaderSets ==
  [userID : {"", "admin"}, email : {"", "a@x"},
   roles : {<<>>, <<"root", " ops">>, <<"root", " ", "ops">>}]

\* strings.TrimSpace on the items that occur.
TrimSpace(str) ==
  CASE str = " ops" -> "ops"
    [] str = " " -> ""
    [] OTHER -> str

\* The roles of the context: the trimmed items that are not empty.
Roles(items) == SelectSeq([i \in 1..Len(items) |-> TrimSpace(items[i])],
                          LAMBDA x : x # "")

\* The context without identity attributes (Authenticate returns nil).
NoCtx == [id |-> "", type |-> "", roles |-> <<>>, email |-> ""]

NoResult == [done |-> FALSE, err |-> "", ctx |-> NoCtx]

Reject(msg) == [done |-> TRUE, err |-> msg, ctx |-> NoCtx]

\* The header extraction and the hydration of the context.
Hydrate(h) ==
  IF h.userID = "" THEN Reject("missing identity header")
  ELSE [done |-> TRUE, err |-> "",
        ctx |-> [id |-> h.userID, type |-> "user", roles |-> Roles(h.roles),
                 email |-> h.email]]

\* An Authenticate that reads the headers without checking the peer.
AuthenticateNoPeerCheck(cidrs, peer, h) == Hydrate(h)

\* TrustedHeaderStrategy.Authenticate.
Authenticate(cidrs, peer, h) ==
  IF ~peer.hasPort THEN Reject("unauthorized gateway connection")
  ELSE IF ~peer.isIP THEN Reject("invalid remote ip")
  ELSE IF ~\E n \in cidrs : Contains(n, peer.ip)
       THEN Reject("forbidden: untrusted source")
  ELSE Hydrate(h)

\* AuthMiddleware.HTTPMiddleware on what the strategy returned: any error
\* is answered http.StatusUnauthorized with the error's text and next is
\* not called; otherwise next.ServeHTTP runs with the context.
HTTPMiddleware(result) ==
  IF result.err # ""
  THEN [status |-> 401, body |-> result.err, handler |-> FALSE]
  ELSE [status |-> 200, body |-> "", handler |-> TRUE]

\* AuthMiddleware.GRPCUnaryInterceptor on what the strategy returned: any
\* error is returned as codes.Unauthenticated; otherwise the handler runs.
GRPCUnaryInterceptor(result) ==
  IF result.err # ""
  THEN [code |-> "Unauthenticated", msg |-> result.err, handler |-> FALSE]
  ELSE [code |-> "OK", msg |-> "", handler |-> TRUE]

\* No strategy built, no request made.
AuthStart ==
  /\ tState = "new"
  /\ tCIDRs = {}
  /\ tHdr = [i \in AuthReqs |-> [userID |-> "", email |-> "", roles |-> <<>>]]
  /\ tRes = [i \in AuthReqs |-> NoResult]

InitAuth == tPeer \in RemoteAddrs /\ AuthStart

AuthIdle ==
  /\ tPeer = [hasPort |-> FALSE, isIP |-> FALSE, ip |-> NoIP]
  /\ AuthStart

\* NewTrustedHeaderStrategy(cfg, logger): an empty list and an entry that
\* is neither a CIDR nor an address are errors.
NewTrustedHeaderStrategy ==
  /\ tState = "new"
  /\ \E proxies \in SUBSET ProxyEntries :
       IF proxies = {} \/ \E e \in proxies : e.kind = "junk"
       THEN /\ tState' = "failed"
            /\ UNCHANGED tCIDRs
       ELSE /\ tState' = "ready"
            /\ tCIDRs' = {ParseEntry(e) : e \in proxies}
  /\ UNCHANGED <<tPeer, tHdr, tRes>>
  /\ UNCHANGED NotAuth

\* Request i of the peer goes through Authenticate.
AuthenticateRequest(i) ==
  /\ tState = "ready"
  /\ ~tRes[i].done
  /\ \E h \in HeaderSets :
       /\ tHdr' = [tHdr EXCEPT ![i] = h]
       /\ tRes' = [tRes EXCEPT ![i] = Authenticate(tCIDRs, tPeer, h)]
  /\ UNCHANGED <<tState, tCIDRs, tPeer>>
  /\ UNCHANGED NotAuth

NextAuth ==
  \/ NewTrustedHeaderStrategy
  \/ \E i \in AuthReqs : AuthenticateRequest(i)

(***************************************************************************)
(*                          SERVER LIFECYCLE                               *)
(* Start has spawned the enabled listeners and waits in its select.  The   *)
(* clock counts the ticks since the cancellation of the context.           *)
(***************************************************************************)
ServerStart ==
  /\ sPhase = "serving"
  /\ sResult = "none"
  /\ sHttpUp = sEnableHTTP
  /\ sGrpcUp = sEnableGRPC
  /\ sHttp = 0
  /\ sRpc = 0
  /\ sNow = 0

\* Start(ctx) with either listener enabled or not.
InitServer ==
  /\ sEnableHTTP \in BOOLEAN
  /\ sEnableGRPC \in BOOLEAN
  /\ ServerStart

ServerIdle ==
  /\ sEnableHTTP = FALSE
  /\ sEnableGRPC = FALSE
  /\ ServerStart

\* The HTTP listener accepts a request.
HttpArrive ==
  /\ sHttpUp
  /\ sHttp < MaxInflight
  /\ sHttp' = sHttp + 1
  /\ UNCHANGED <<sEnableHTTP, sEnableGRPC, sPhase, sResult, sHttpUp, sGrpcUp,
                 sRpc, sNow>>
  /\ UNCHANGED NotServer

\* An in-flight HTTP request completes.
HttpFinish ==
  /\ sHttp > 0
  /\ sHttp' = sHttp - 1
  /\ UNCHANGED <<sEnableHTTP, sEnableGRPC, sPhase, sResult, sHttpUp, sGrpcUp,
                 sRpc, sNow>>
  /\ UNCHANGED NotServer

\* The gRPC listener accepts a call.
RpcArrive ==
  /\ sGrpcUp
  /\ sRpc < MaxInflight
  /\ sRpc' = sRpc + 1
  /\ UNCHANGED <<sEnableHTTP, sEnableGRPC, sPhase, sResult, sHttpUp, sGrpcUp,
                 sHttp, sNow>>
  /\ UNCHANGED NotServer

\* An active RPC finishes.
RpcFinish ==
  /\ sRpc > 0
  /\ sRpc' = sRpc - 1
  /\ UNCHANGED <<sEnableHTTP, sEnableGRPC, sPhase, sResult, sHttpUp, sGrpcUp,
                 sHttp, sNow>>
  /\ UNCHANGED NotServer

\* case err := <-errChan: a listener has failed; Start returns the error.
ListenerFailed ==
  /\ sPhase = "serving"
  /\ \/ /\ sHttpUp
        /\ sHttpUp' = FALSE
        /\ UNCHANGED sGrpcUp
     \/ /\ sGrpcUp
        /\ sGrpcUp' = FALSE
        /\ UNCHANGED sHttpUp
  /\ sPhase' = "returned"
  /\ sResult' = "err"
  /\ UNCHANGED <<sEnableHTTP, sEnableGRPC, sHttp, sRpc, sNow>>
  /\ UNCHANGED NotServer

\* case <-ctx.Done(): shutdown() makes shutdownCtx, which ends after
\* cfg.ShutdownTimeout, and calls httpSrv.Shutdown, which closes the listener.
CtxDone ==
  /\ sPhase = "serving"
  /\ sPhase' = "http_shutdown"
  /\ sHttpUp' = FALSE
  /\ UNCHANGED <<sEnableHTTP, sEnableGRPC, sResult, sGrpcUp, sHttp, sRpc,
                 sNow>>
  /\ UNCHANGED NotServer

\* httpSrv.Shutdown(shutdownCtx) returns: no httpSrv, no request in flight,
\* or shutdownCtx is done.  GracefulStop is called next and stops accepting.
HTTPShutdownReturn ==
  /\ sPhase = "http_shutdown"
  /\ ~sEnableHTTP \/ sHttp = 0 \/ sNow >= ShutdownWindow
  /\ sPhase' = "grpc_stop"
  /\ sGrpcUp' = FALSE
  /\ UNCHANGED <<sEnableHTTP, sEnableGRPC, sResult, sHttpUp, sHttp, sRpc,
                 sNow>>
  /\ UNCHANGED NotServer

\* grpcSrv.GracefulStop() returns when no RPC is active; shutdown returns
\* nil and so does Start.
GracefulStopReturn ==
  /\ sPhase = "grpc_stop"
  /\ sRpc = 0
  /\ sPhase' = "returned"
  /\ sResult' = "nil"
  /\ UNCHANGED <<sEnableHTTP, sEnableGRPC, sHttpUp, sGrpcUp, sHttp, sRpc,
                 sNow>>
  /\ UNCHANGED NotServer

\* Time passes during the shutdown only while the step shutdown is in is
\* waiting: httpSrv.Shutdown for an in-flight request, until shutdownCtx is
\* done; GracefulStop for an active RPC.  The steps themselves take no time.
STick ==
  /\ sNow < ShutdownWindow + Overrun
  /\ \/ /\ sPhase = "http_shutdown"
        /\ sEnableHTTP /\ sHttp > 0 /\ sNow < ShutdownWindow
     \/ /\ sPhase = "grpc_stop"
        /\ sRpc > 0
  /\ sNow' = sNow + 1
  /\ UNCHANGED <<sEnableHTTP, sEnableGRPC, sPhase, sResult, sHttpUp, sGrpcUp,
                 sHttp, sRpc>>
  /\ UNCHANGED NotServer

NextServer ==
  \/ HttpArrive
  \/ HttpFinish
  \/ RpcArrive
  \/ RpcFinish
  \/ ListenerFailed
  \/ CtxDone
  \/ HTTPShutdownReturn
  \/ GracefulStopReturn
  \/ STick

(***************************************************************************)
(*                              CONSUMER                                   *)
(* One consumer of one partition holding the records 1..NRec.  Durations   *)
(* are in ticks of 100 ms.                                                 *)
(***************************************************************************)
Records == 1..NRec
Topic == "orders"
DefaultInitialBackoff == 1
DefaultMaxBackoff == 300
\* Topic names are sequences of their parts, <<>> for the empty name.
NoTopic == <<>>

\* The ConsumerConfig values a caller passes in.
Configs ==
  [ MaxRetries : 0..MaxRetriesBound,
    InitialBackoff : {0, 4},
    MaxBackoff : {0, 3},
    DLQTopic : {NoTopic, <<"dead">>},
    StrictMode : BOOLEAN ]

\* NewConsumer fills the defaults into cfg.
NewConsumer(cfg) ==
  [ cfg EXCEPT
      !.InitialBackoff =
        IF cfg.InitialBackoff = 0 THEN DefaultInitialBackoff
        ELSE cfg.InitialBackoff,
      !.MaxBackoff =
        IF cfg.MaxBackoff = 0 THEN DefaultMaxBackoff ELSE cfg.MaxBackoff,
      !.DLQTopic =
        IF cfg.MaxRetries > 0 /\ cfg.DLQTopic = NoTopic
        THEN <<Topic, ".dlq">>
        ELSE cfg.DLQTopic ]

ConsumerStart ==
  /\ kCtx = "live"
  /\ kPc = "poll"
  /\ kRet = "none"
  /\ kPos = 1
  /\ kBatch = <<>>
  /\ kCur = 0
  /\ kAttempt = 0
  /\ kBackoff = 0
  /\ kWaits = <<>>
  /\ kCommitted = {}
  /\ kCommitFailed = {}
  /\ kHandled = {}
  /\ kDLQ = {}
  /\ kDLQFailed = {}
  /\ kDropped = {}

InitConsumer ==
  /\ kCfg \in {NewConsumer(cfg) : cfg \in Configs}
  /\ kHasDLQ \in BOOLEAN
  /\ ConsumerStart

ConsumerIdle ==
  /\ kCfg = NewConsumer([MaxRetries |-> 0, InitialBackoff |-> 0,
                          MaxBackoff |-> 0, DLQTopic |-> NoTopic,
                          StrictMode |-> FALSE])
  /\ kHasDLQ = FALSE
  /\ ConsumerStart

\* What processWithRetry does when the DLQ publish has failed, whatever the
\* mode: return the error, which Start returns.
OnDLQFailureHalt(strict) == [pc |-> "returned", ret |-> "dlq_err"]

\* What processWithRetry does when the DLQ publish has failed, whatever the
\* mode: log and return nil, so that Start commits the record.
OnDLQFailureDrop(strict) == [pc |-> "commit", ret |-> "none"]

\* What processWithRetry does when the DLQ publish has failed: in strict
\* mode it returns the error, which Start returns; else it returns nil.
OnDLQFailure(strict) ==
  IF strict THEN [pc |-> "returned", ret |-> "dlq_err"]
  ELSE [pc |-> "commit", ret |-> "none"]

\* The context of Start is cancelled.
ConsumerCancel ==
  /\ kCtx = "live"
  /\ kPc \notin {"returned", "panicked"}
  /\ kCtx' = "cancelled"
  /\ UNCHANGED <<kCfg, kHasDLQ, kPc, kRet, kPos, kBatch, kCur, kAttempt,
                 kBackoff, kWaits, kCommitted, kCommitFailed, kHandled,
                 kDLQ, kDLQFailed, kDropped>>
  /\ UNCHANGED NotConsumer

\* PollFetches: on a cancelled context Start returns nil; else it delivers
\* the next records of the partition.
Poll ==
  /\ kPc = "poll"
  /\ IF kCtx = "cancelled"
     THEN /\ kPc' = "returned"
          /\ kRet' = "nil"
          /\ UNCHANGED <<kPos, kBatch>>
     ELSE \E n \in 1..MaxBatch :
            /\ kPos + n - 1 <= NRec
            /\ kBatch' = [i \in 1..n |-> kPos + i - 1]
            /\ kPos' = kPos + n
            /\ kPc' = "iter"
            /\ UNCHANGED kRet
  /\ UNCHANGED <<kCfg, kHasDLQ, kCtx, kCur, kAttempt, kBackoff, kWaits,
                 kCommitted, kCommitFailed, kHandled, kDLQ, kDLQFailed, kDropped>>
  /\ UNCHANGED NotConsumer

\* for !iter.Done(): take the next record and enter processWithRetry, or
\* go back to polling.
IterNext ==
  /\ kPc = "iter"
  /\ IF kBatch = <<>>
     THEN /\ kPc' = "poll"
          /\ UNCHANGED <<kBatch, kCur, kAttempt, kBackoff, kWaits>>
     ELSE /\ kCur' = Head(kBatch)
          /\ kBatch' = Tail(kBatch)
          /\ kAttempt' = 0
          /\ kBackoff' = kCfg.InitialBackoff
          /\ kWaits' = <<>>
          /\ kPc' = "attempt"
  /\ UNCHANGED <<kCfg, kHasDLQ, kCtx, kRet, kPos, kCommitted, kCommitFailed, kHandled,
                 kDLQ, kDLQFailed, kDropped>>
  /\ UNCHANGED NotConsumer

\* The handler returned nil.
HandlerSucceeded ==
  /\ kHandled' = kHandled \cup {kCur}
  /\ kPc' = "commit"
  /\ UNCHANGED <<kRet, kAttempt, kDLQ, kDLQFailed, kDropped>>

\* MaxRetries reached and no DLQ producer: panic in strict mode, else drop.
NoDLQProducer ==
  /\ IF kCfg.StrictMode
     THEN kPc' = "panicked" /\ UNCHANGED kDropped
     ELSE kPc' = "commit" /\ kDropped' = kDropped \cup {kCur}
  /\ UNCHANGED <<kRet, kDLQ, kDLQFailed>>

\* MaxRetries reached: publish to the DLQ topic; the publish may fail.
PublishDLQ ==
  \/ /\ kDLQ' = kDLQ \cup {<<kCfg.DLQTopic, kCur>>}
     /\ kPc' = "commit"
     /\ UNCHANGED <<kRet, kDLQFailed, kDropped>>
  \/ /\ kDLQFailed' = kDLQFailed \cup {kCur}
     /\ kPc' = OnDLQFailure(kCfg.StrictMode).pc
     /\ kRet' = OnDLQFailure(kCfg.StrictMode).ret
     /\ kDropped' = IF OnDLQFailure(kCfg.StrictMode).pc = "commit"
                    THEN kDropped \cup {kCur} ELSE kDropped
     /\ UNCHANGED kDLQ

\* The handler returned an error.
HandlerFailed ==
  /\ kAttempt < MaxAttempts
  /\ kAttempt' = kAttempt + 1
  /\ UNCHANGED kHandled
  /\ IF kCfg.MaxRetries > 0 /\ kAttempt' >= kCfg.MaxRetries
     THEN IF kHasDLQ THEN PublishDLQ ELSE NoDLQProducer
     ELSE /\ kPc' = "backoff"
          /\ UNCHANGED <<kRet, kDLQ, kDLQFailed, kDropped>>

\* One round of the loop of processWithRetry up to its select: the context
\* check, the handler, the retry count and the DLQ handling.
Attempt ==
  /\ kPc = "attempt"
  /\ IF kCtx = "cancelled"
     THEN /\ kPc' = "returned"
          /\ kRet' = "ctx"
          /\ UNCHANGED <<kAttempt, kHandled, kDLQ, kDLQFailed, kDropped>>
     ELSE HandlerSucceeded \/ HandlerFailed
  /\ UNCHANGED <<kCfg, kHasDLQ, kCtx, kPos, kBatch, kCur, kBackoff, kWaits,
                 kCommitted, kCommitFailed>>
  /\ UNCHANGED NotConsumer

\* A select of processWithRetry that returns nil when the context is done,
\* so that Start commits the record.
BackoffAckOnCancel ==
  /\ kPc = "backoff"
  /\ \/ /\ kCtx = "cancelled"
        /\ kPc' = "commit"
        /\ UNCHANGED <<kRet, kBackoff, kWaits>>
     \/ /\ kWaits' = Append(kWaits, kBackoff)
        /\ kBackoff' = IF 2 * kBackoff > kCfg.MaxBackoff
                       THEN kCfg.MaxBackoff ELSE 2 * kBackoff
        /\ kPc' = "attempt"
        /\ UNCHANGED kRet
  /\ UNCHANGED <<kCfg, kHasDLQ, kCtx, kPos, kBatch, kCur, kAttempt,
                 kCommitted, kCommitFailed, kHandled, kDLQ, kDLQFailed, kDropped>>
  /\ UNCHANGED NotConsumer

\* The select of processWithRetry: the context is done and Start returns
\* its error, or the timer fires after backoff, which is doubled and capped.
Backoff ==
  /\ kPc = "backoff"
  /\ \/ /\ kCtx = "cancelled"
        /\ kPc' = "returned"
        /\ kRet' = "ctx"
        /\ UNCHANGED <<kBackoff, kWaits>>
     \/ /\ kWaits' = Append(kWaits, kBackoff)
        /\ kBackoff' = IF 2 * kBackoff > kCfg.MaxBackoff
                       THEN kCfg.MaxBackoff ELSE 2 * kBackoff
        /\ kPc' = "attempt"
        /\ UNCHANGED kRet
  /\ UNCHANGED <<kCfg, kHasDLQ, kCtx, kPos, kBatch, kCur, kAttempt,
                 kCommitted, kCommitFailed, kHandled, kDLQ, kDLQFailed, kDropped>>
  /\ UNCHANGED NotConsumer

\* CommitRecords(ctx, record): a failure is logged and the loop goes on.
Commit ==
  /\ kPc = "commit"
  /\ \/ /\ kCommitted' = kCommitted \cup {kCur}
        /\ UNCHANGED kCommitFailed
     \/ /\ kCommitFailed' = kCommitFailed \cup {kCur}
        /\ UNCHANGED kCommitted
  /\ kPc' = "iter"
  /\ UNCHANGED <<kCfg, kHasDLQ, kCtx, kRet, kPos, kBatch, kCur, kAttempt,
                 kBackoff, kWaits, kHandled, kDLQ, kDLQFailed, kDropped>>
  /\ UNCHANGED NotConsumer

NextConsumer ==
  \/ ConsumerCancel
  \/ Poll
  \/ IterNext
  \/ Attempt
  \/ Backoff
  \/ Commit

\* A permissive consumer with a retry limit.
InitPermissive ==
  /\ InitConsumer
  /\ ~kCfg.StrictMode
  /\ kCfg.MaxRetries > 0

\* Start is a loop of one goroutine: each of its steps is taken once it can
\* be, and the handler and the producer return.
ConsumerFairness ==
  /\ WF_vars(Poll)
  /\ WF_vars(IterNext)
  /\ WF_vars(Attempt)
  /\ WF_vars(Backoff)
  /\ WF_vars(Commit)

(***************************************************************************)
(*                     VERIFYTOKEN, WITH THE CLOCK                         *)
(* One call of VerifyToken on a ready client, no other caller running.     *)
(* Times are in seconds.                                                   *)
(***************************************************************************)
Issuer == "https://issuer"
NoClaim == 0 - 1
TokenNbf == 100
TokenExp == 200

\* The tokens presented: header alg and kid, whether the signature verifies
\* under the key of that kid, and the claims iss, exp and nbf.
Tokens ==
  [ alg : {"RS256", "HS256"},
    kid : TokenKids,
    sig : BOOLEAN,
    iss : {Issuer, "https://other"},
    exp : {NoClaim, TokenExp},
    nbf : {NoClaim, TokenNbf} ]

\* The instants of the calls, around nbf and exp.
Instants ==
  { TokenNbf - 61, TokenNbf - 59, TokenNbf, TokenExp - 59, TokenExp - 1,
    TokenExp, TokenExp + 30, TokenExp + 59, TokenExp + 61 }

\* No jwt.WithLeeway option is passed to ParseWithClaims.
Leeway == 0

\* The claims validation of the parser under WithIssuer and
\* WithExpirationRequired: the set of errors it joins.
ValidateClaims(tok, now, leeway) ==
  (IF tok.exp = NoClaim THEN {"exp required"}
   ELSE IF now < tok.exp + leeway THEN {} ELSE {"expired"})
  \cup (IF tok.nbf = NoClaim \/ now >= tok.nbf - leeway THEN {}
        ELSE {"not valid yet"})
  \cup (IF tok.iss = Issuer THEN {} ELSE {"issuer"})

\* The key function on a cache miss: doRefresh, then the retry of the lookup.
KeyAfterRefresh(tok, cache, ans) ==
  LET f == fetchKeys(cache, ans) IN
    [ found |-> f.err = "none" /\ tok.kid \in f.cache,
      cache |-> f.cache,
      refreshes |-> 1 ]

\* The key function given to ParseWithClaims.
KeyFunc(tok, cache, ans) ==
  IF tok.alg # "RS256"
  THEN [found |-> FALSE, cache |-> cache, refreshes |-> 0]
  ELSE IF tok.kid \in cache
  THEN [found |-> TRUE, cache |-> cache, refreshes |-> 0]
  ELSE KeyAfterRefresh(tok, cache, ans)

\* What VerifyToken returns once the key function has run: the signature is
\* verified, then the claims are validated; ErrTokenExpired becomes
\* ErrExpiredToken and any other error ErrInvalidToken.
VerifyResult(tok, found, now) ==
  IF ~found \/ ~tok.sig THEN "ErrInvalidToken"
  ELSE IF "expired" \in ValidateClaims(tok, now, Leeway)
  THEN "ErrExpiredToken"
  ELSE IF ValidateClaims(tok, now, Leeway) # {} THEN "ErrInvalidToken"
  ELSE "claims"

VerifyStart ==
  /\ vPc = "idle"
  /\ vResult = "none"
  /\ vRefreshes = 0
  /\ vStaleLogged = FALSE

\* A ready client, whose cache is never empty, and a token.
InitVerify ==
  /\ vNow \in Instants
  /\ vAge \in {0, MaxStale, MaxStale + 1}
  /\ vCache \in {{"k1"}, {"k1", "k2"}}
  /\ vTok \in Tokens
  /\ VerifyStart

VerifyIdle ==
  /\ vNow = 0
  /\ vAge = 0
  /\ vCache = {"k1"}
  /\ vTok = [alg |-> "RS256", kid |-> "k1", sig |-> TRUE, iss |-> Issuer,
             exp |-> TokenExp, nbf |-> NoClaim]
  /\ VerifyStart

\* VerifyToken(tokenString): the stale check, which only logs, then
\* ParseWithClaims with the key function.
VerifyTokenCall ==
  /\ vPc = "idle"
  /\ vStaleLogged' = (vAge > MaxStale)
  /\ \E ans \in EndpointAnswers :
       LET k == KeyFunc(vTok, vCache, ans) IN
         /\ vCache' = k.cache
         /\ vRefreshes' = k.refreshes
         /\ vResult' = VerifyResult(vTok, k.found, vNow)
  /\ vPc' = "done"
  /\ UNCHANGED <<vNow, vAge, vTok>>
  /\ UNCHANGED NotVerify

NextVerify == VerifyTokenCall

(***************************************************************************)
(*                       THE RATE GATE UNDER LOAD                          *)
(* RateLimitMiddleware(rdb, LoadRate, LoadBurst, 1 s) and the requests of  *)
(* one identity, counted.  Clock and script times as in the section on the *)
(* rate gate.                                                              *)
(***************************************************************************)
LoadStart ==
  /\ lRate = LoadRate
  /\ lBurst = LoadBurst
  /\ lNow = 0
  /\ lKey = NoKey
  /\ lTokens = EmergencyCapacity(LoadBurst)
  /\ lLast = 0
  /\ lIssued = 0
  /\ lLater = 0
  /\ lAdmitted = 0
  /\ lDenied = 0
  /\ lStatus = 0
  /\ lRetry = {}

InitLoad == lOutage \in BOOLEAN /\ LoadStart

LoadIdle == lOutage = FALSE /\ LoadStart

\* Time passes on the clock.
LoadTick ==
  /\ lNow < MaxLoadTime
  /\ lNow' = lNow + 1
  /\ UNCHANGED <<lRate, lBurst, lOutage, lKey, lTokens, lLast, lIssued,
                 lLater, lAdmitted, lDenied, lStatus, lRetry>>
  /\ UNCHANGED NotLoad

\* The script ran: 429 with Retry-After when it returns res >= 0, otherwise
\* the next handler.
LoadRemote ==
  /\ ~lOutage
  /\ LET s == luaGCRA(lKey, lNow, lRate, lBurst) IN
       /\ lKey' = s.key
       /\ lStatus' = IF s.ret >= 0 THEN 429 ELSE 200
       /\ lAdmitted' = IF s.ret >= 0 THEN lAdmitted ELSE lAdmitted + 1
       /\ lDenied' = IF s.ret >= 0 THEN lDenied + 1 ELSE lDenied
       /\ lRetry' = IF s.ret >= 0 THEN lRetry \cup {s.ret} ELSE lRetry
  /\ UNCHANGED <<lTokens, lLast>>

\* The script failed: the emergency limiter decides; 503 when it does not
\* allow, otherwise the next handler.
LoadFallback ==
  /\ lOutage
  /\ LET a == emergencyAllow(lTokens, lLast, lNow, lRate, lBurst) IN
       /\ lTokens' = a.tokens
       /\ lLast' = a.last
       /\ lStatus' = IF a.ok THEN 200 ELSE 503
       /\ lAdmitted' = IF a.ok THEN lAdmitted + 1 ELSE lAdmitted
       /\ lDenied' = IF a.ok THEN lDenied ELSE lDenied + 1
  /\ UNCHANGED <<lKey, lRetry>>

\* One request of the identity through the HTTP middleware (rps > 0).
LoadRequest ==
  /\ lRate > 0
  /\ lIssued < MaxLoadReqs
  /\ lIssued' = lIssued + 1
  /\ lLater' = IF lNow > 0 THEN lLater + 1 ELSE lLater
  /\ LoadRemote \/ LoadFallback
  /\ UNCHANGED <<lRate, lBurst, lOutage, lNow>>
  /\ UNCHANGED NotLoad

NextLoad == LoadTick \/ LoadRequest

(***************************************************************************)
(*                    CONCURRENT CALLERS OF handleDrop                     *)
(* Each caller runs the statements of handleDrop one at a time; the        *)
(* atomic operations on l.dropCount and l.lastLogTime are single steps.    *)
(***************************************************************************)
NDroppers == 2
MaxDrops == 3
MaxDropClock == 3

Droppers == 1..NDroppers

DropsStart ==
  /\ hPc = [g \in Droppers |-> "idle"]
  /\ hNowRead = [g \in Droppers |-> 0]
  /\ hLastRead = [g \in Droppers |-> UnixZero]
  /\ hCount = 0
  /\ hLastLog = UnixZero
  /\ hEmits = <<>>
  /\ hCalls = 0

InitDrops == hClock \in {0, 1} /\ DropsStart

DropsIdle == hClock = 0 /\ DropsStart

\* atomic.AddUint64(&l.dropCount, 1).
DropAdd(g) ==
  /\ hPc[g] = "idle"
  /\ hCalls < MaxDrops
  /\ hCalls' = hCalls + 1
  /\ hCount' = hCount + 1
  /\ hPc' = [hPc EXCEPT ![g] = "now"]
  /\ UNCHANGED <<hNowRead, hLastRead, hLastLog, hEmits, hClock>>
  /\ UNCHANGED NotDrops

\* now := time.Now().
DropNow(g) ==
  /\ hPc[g] = "now"
  /\ hNowRead' = [hNowRead EXCEPT ![g] = hClock]
  /\ hPc' = [hPc EXCEPT ![g] = "load"]
  /\ UNCHANGED <<hLastRead, hCount, hLastLog, hEmits, hCalls, hClock>>
  /\ UNCHANGED NotDrops

\* lastLog, ok := l.lastLogTime.Load().(time.Time), time.Unix(0, 0) when
\* nothing was stored.
DropLoad(g) ==
  /\ hPc[g] = "load"
  /\ hLastRead' = [hLastRead EXCEPT ![g] = hLastLog]
  /\ hPc' = [hPc EXCEPT ![g] = "check"]
  /\ UNCHANGED <<hNowRead, hCount, hLastLog, hEmits, hCalls, hClock>>
  /\ UNCHANGED NotDrops

\* if now.Sub(lastLog) > 1*time.Minute { l.lastLogTime.Store(now) ... }; the
\* function returns when the condition is false.
DropCheck(g) ==
  /\ hPc[g] = "check"
  /\ IF hNowRead[g] - hLastRead[g] > TicksPerMinute
     THEN /\ hLastLog' = hNowRead[g]
          /\ hPc' = [hPc EXCEPT ![g] = "swap"]
     ELSE /\ hPc' = [hPc EXCEPT ![g] = "idle"]
          /\ UNCHANGED hLastLog
  /\ UNCHANGED <<hNowRead, hLastRead, hCount, hEmits, hCalls, hClock>>
  /\ UNCHANGED NotDrops

\* totalDropped := atomic.SwapUint64(&l.dropCount, 0), then
\* l.logger.Error("AUDIT_LOG_CRITICAL_FAILURE", dropped_count, ...).
DropEmit(g) ==
  /\ hPc[g] = "swap"
  /\ hCount' = 0
  /\ hEmits' = Append(hEmits, [at |-> hNowRead[g], count |-> hCount])
  /\ hPc' = [hPc EXCEPT ![g] = "idle"]
  /\ UNCHANGED <<hNowRead, hLastRead, hLastLog, hCalls, hClock>>
  /\ UNCHANGED NotDrops

\* Time passes.
DropTick ==
  /\ hClock < MaxDropClock
  /\ hClock' = hClock + 1
  /\ UNCHANGED <<hPc, hNowRead, hLastRead, hCount, hLastLog, hEmits, hCalls>>
  /\ UNCHANGED NotDrops

NextDrops ==
  \/ \E g \in Droppers : DropAdd(g)
  \/ \E g \in Droppers : DropNow(g)
  \/ \E g \in Droppers : DropLoad(g)
  \/ \E g \in Droppers : DropCheck(g)
  \/ \E g \in Droppers : DropEmit(g)
  \/ DropTick

(***************************************************************************)
(*                  KEY EXPIRY BESIDE A TAT KEPT FOREVER                   *)
(* The same requests are run through the script twice: on the key as the   *)
(* store keeps it, with the TTL that SET ... EX gives it, and on a key     *)
(* whose value is never dropped.                                           *)
(***************************************************************************)
MaxExpiryReqs == 7
MaxExpiryTime == 5

\* A key that outlives the clock.
KeepForever(key) ==
  IF key = NoKey THEN NoKey ELSE [key EXCEPT !.expireAt = MaxExpiryTime + 1]

ExpiryStart ==
  /\ xNow = 0
  /\ xKey = NoKey
  /\ xKept = NoKey
  /\ xReqs = 0
  /\ xLast = <<-1, -1>>

InitExpiry ==
  /\ xRate \in Rates
  /\ xBurst \in Bursts
  /\ ExpiryStart

ExpiryIdle ==
  /\ xRate = 1
  /\ xBurst = 1
  /\ ExpiryStart

\* Time passes on the clock.
ExpiryTick ==
  /\ xNow < MaxExpiryTime
  /\ xNow' = xNow + 1
  /\ UNCHANGED <<xRate, xBurst, xKey, xKept, xReqs, xLast>>
  /\ UNCHANGED NotExpiry

\* One request: luaGCRA.Run on the key, and on the key that is kept.
ExpiryRequest ==
  /\ xReqs < MaxExpiryReqs
  /\ xRate > 0
  /\ LET s == luaGCRA(xKey, xNow, xRate, xBurst)
         t == luaGCRA(xKept, xNow, xRate, xBurst)
     IN  /\ xKey' = s.key
         /\ xKept' = KeepForever(t.key)
         /\ xLast' = <<s.ret, t.ret>>
  /\ xReqs' = xReqs + 1
  /\ UNCHANGED <<xRate, xBurst, xNow>>
  /\ UNCHANGED NotExpiry

NextExpiry == ExpiryTick \/ ExpiryRequest

(***************************************************************************)
(*                   THE PROCESS-WIDE FALLBACK BUCKET                      *)
(* emergencyLimiter and limiterOnce are package variables: every gate      *)
(* that RateLimitMiddleware constructs shares them.  Tokens are counted in *)
(* 1/TicksPerSec of a token.                                               *)
(***************************************************************************)
MaxGates == 3
MaxOnceTime == 2

GateParams == [rps : {0, 1, 2}, burst : {1, 2}]

\* emergencyLimiter before limiterOnce has run: nil.
NoLimiter == [limit |-> -1, burst |-> -1, tokens |-> 0, last |-> 0]

\* rate.NewLimiter(r, b): the bucket starts full.
NewLimiter(r, b, now) ==
  [limit |-> r, burst |-> b, tokens |-> b * TicksPerSec, last |-> now]

\* A construction that makes a new limiter every time.
limiterAlways(once, limiter, rps, burst, now) ==
  NewLimiter(rps * 2, burst * 2, now)

\* limiterOnce.Do(func() { emergencyLimiter = rate.NewLimiter(
\* rate.Limit(rps*2), burst*2) }): emergencyLimiter afterwards.
limiterOnceDo(once, limiter, rps, burst, now) ==
  IF once THEN limiter ELSE NewLimiter(rps * 2, burst * 2, now)

\* emergencyLimiter.Allow() at time now: the limiter afterwards and the
\* answer.
LimiterAllow(lim, now) ==
  LET filled == Min(lim.burst * TicksPerSec,
                    lim.tokens + (now - lim.last) * lim.limit)
  IN  IF filled >= TokenCost
      THEN [ok |-> TRUE,
            lim |-> [lim EXCEPT !.tokens = filled - TokenCost, !.last = now]]
      ELSE [ok |-> FALSE, lim |-> lim]

NoDraw == [gate |-> 0, ok |-> FALSE]

\* The process has started and no gate is constructed.
OnceStart ==
  /\ oGates = <<>>
  /\ oOnce = FALSE
  /\ oLimiter = NoLimiter
  /\ oCreated = 0
  /\ oDraw = NoDraw

InitOnce == oNow \in {0, 1} /\ OnceStart

OnceIdle == oNow = 0 /\ OnceStart

\* RateLimitMiddleware(rdb, rps, burst, period) constructs a gate.
RateLimitMiddleware ==
  /\ Len(oGates) < MaxGates
  /\ \E g \in GateParams :
       /\ oGates' = Append(oGates, g)
       /\ oLimiter' = limiterOnceDo(oOnce, oLimiter, g.rps, g.burst, oNow)
  /\ oOnce' = TRUE
  /\ oCreated' = IF oLimiter' = oLimiter THEN oCreated ELSE oCreated + 1
  /\ UNCHANGED <<oDraw, oNow>>
  /\ UNCHANGED NotOnce

\* A request at gate i while the remote counter fails: the gate is enabled
\* (rps > 0), the script returns an error and emergencyLimiter.Allow()
\* decides.
GateFallback(i) ==
  /\ i \in 1..Len(oGates)
  /\ oGates[i].rps > 0
  /\ LET a == LimiterAllow(oLimiter, oNow) IN
       /\ oLimiter' = a.lim
       /\ oDraw' = [gate |-> i, ok |-> a.ok]
  /\ UNCHANGED <<oGates, oOnce, oCreated, oNow>>
  /\ UNCHANGED NotOnce

\* Time passes on the clock.
OnceTick ==
  /\ oNow < MaxOnceTime
  /\ oNow' = oNow + 1
  /\ UNCHANGED <<oGates, oOnce, oLimiter, oCreated, oDraw>>
  /\ UNCHANGED NotOnce

NextOnce ==
  \/ RateLimitMiddleware
  \/ \E i \in 1..MaxGates : GateFallback(i)
  \/ OnceTick

(***************************************************************************)
(*                           SPECIFICATIONS                                *)
(***************************************************************************)
InitSpecIdem == InitIdem /\ IdleGCRA /\ JWKSIdle /\ AuditIdle /\ AuthIdle /\ ServerIdle /\ ConsumerIdle /\ VerifyIdle /\ LoadIdle /\ DropsIdle /\ ExpiryIdle /\ OnceIdle
InitSpecMethods == InitMethods /\ IdleGCRA /\ JWKSIdle /\ AuditIdle /\ AuthIdle /\ ServerIdle /\ ConsumerIdle /\ VerifyIdle /\ LoadIdle /\ DropsIdle /\ ExpiryIdle /\ OnceIdle
InitSpecGCRA == InitGCRA /\ InitIdem /\ JWKSIdle /\ AuditIdle /\ AuthIdle /\ ServerIdle /\ ConsumerIdle /\ VerifyIdle /\ LoadIdle /\ DropsIdle /\ ExpiryIdle /\ OnceIdle
InitSpecJWKS == JWKSIdle /\ InitIdem /\ IdleGCRA /\ AuditIdle /\ AuthIdle /\ ServerIdle /\ ConsumerIdle /\ VerifyIdle /\ LoadIdle /\ DropsIdle /\ ExpiryIdle /\ OnceIdle
InitSpecAudit == InitAudit /\ InitIdem /\ IdleGCRA /\ JWKSIdle /\ AuthIdle /\ ServerIdle /\ ConsumerIdle /\ VerifyIdle /\ LoadIdle /\ DropsIdle /\ ExpiryIdle /\ OnceIdle
InitSpecTenants == InitTenants /\ IdleGCRA /\ JWKSIdle /\ AuditIdle /\ AuthIdle /\ ServerIdle /\ ConsumerIdle /\ VerifyIdle /\ LoadIdle /\ DropsIdle /\ ExpiryIdle /\ OnceIdle
InitSpecFallback == InitOutage /\ InitIdem /\ JWKSIdle /\ AuditIdle /\ AuthIdle /\ ServerIdle /\ ConsumerIdle /\ VerifyIdle /\ LoadIdle /\ DropsIdle /\ ExpiryIdle /\ OnceIdle
InitSpecGRPC == InitGRPC /\ InitIdem /\ JWKSIdle /\ AuditIdle /\ AuthIdle /\ ServerIdle /\ ConsumerIdle /\ VerifyIdle /\ LoadIdle /\ DropsIdle /\ ExpiryIdle /\ OnceIdle
InitSpecAuth == InitAuth /\ InitIdem /\ IdleGCRA /\ JWKSIdle /\ AuditIdle /\ ServerIdle /\ ConsumerIdle /\ VerifyIdle /\ LoadIdle /\ DropsIdle /\ ExpiryIdle /\ OnceIdle
InitSpecServer == InitServer /\ InitIdem /\ IdleGCRA /\ JWKSIdle /\ AuditIdle /\ AuthIdle /\ ConsumerIdle /\ VerifyIdle /\ LoadIdle /\ DropsIdle /\ ExpiryIdle /\ OnceIdle
InitSpecConsumer == InitConsumer /\ InitIdem /\ IdleGCRA /\ JWKSIdle /\ AuditIdle /\ AuthIdle /\ ServerIdle /\ VerifyIdle /\ LoadIdle /\ DropsIdle /\ ExpiryIdle /\ OnceIdle
InitSpecVerify == InitVerify /\ InitIdem /\ IdleGCRA /\ JWKSIdle /\ AuditIdle /\ AuthIdle /\ ServerIdle /\ ConsumerIdle /\ LoadIdle /\ DropsIdle /\ ExpiryIdle /\ OnceIdle
InitSpecLoad == InitLoad /\ InitIdem /\ IdleGCRA /\ JWKSIdle /\ AuditIdle /\ AuthIdle /\ ServerIdle /\ ConsumerIdle /\ VerifyIdle /\ DropsIdle /\ ExpiryIdle /\ OnceIdle
InitSpecPermissive == InitPermissive /\ InitIdem /\ IdleGCRA /\ JWKSIdle /\ AuditIdle /\ AuthIdle /\ ServerIdle /\ VerifyIdle /\ LoadIdle /\ DropsIdle /\ ExpiryIdle /\ OnceIdle
InitSpecDrops == LoadIdle /\ InitIdem /\ IdleGCRA /\ JWKSIdle /\ AuditIdle /\ AuthIdle /\ ServerIdle /\ ConsumerIdle /\ VerifyIdle /\ InitDrops /\ ExpiryIdle /\ OnceIdle
InitSpecExpiry == LoadIdle /\ InitIdem /\ IdleGCRA /\ JWKSIdle /\ AuditIdle /\ AuthIdle /\ ServerIdle /\ ConsumerIdle /\ VerifyIdle /\ DropsIdle /\ InitExpiry /\ OnceIdle
InitSpecOnce == LoadIdle /\ InitIdem /\ IdleGCRA /\ JWKSIdle /\ AuditIdle /\ AuthIdle /\ ServerIdle /\ ConsumerIdle /\ VerifyIdle /\ DropsIdle /\ ExpiryIdle /\ InitOnce

SpecIdem == InitSpecIdem /\ [][NextIdem]_vars
SpecGCRA == InitSpecGCRA /\ [][NextGCRA]_vars
SpecJWKS == InitSpecJWKS /\ [][NextJWKS]_vars
SpecAudit == InitSpecAudit /\ [][NextAudit]_vars
SpecTenants == InitSpecTenants /\ [][NextIdem]_vars
SpecFallback == InitSpecFallback /\ [][NextGCRA]_vars
SpecGRPC == InitSpecGRPC /\ [][NextGRPC]_vars
SpecAuth == InitSpecAuth /\ [][NextAuth]_vars
SpecServer == InitSpecServer /\ [][NextServer]_vars
SpecConsumer == InitSpecConsumer /\ [][NextConsumer]_vars
SpecVerify == InitSpecVerify /\ [][NextVerify]_vars
SpecLoad == InitSpecLoad /\ [][NextLoad]_vars
SpecMethods == InitSpecMethods /\ [][NextMethods]_vars
SpecDrops == InitSpecDrops /\ [][NextDrops]_vars
SpecExpiry == InitSpecExpiry /\ [][NextExpiry]_vars
SpecOnce == InitSpecOnce /\ [][NextOnce]_vars
SpecPermissive ==
  InitSpecPermissive /\ [][NextConsumer]_vars /\ ConsumerFairness

(***************************************************************************)
(* Claims about the idempotency gate.                                      *)
(***************************************************************************)
RanScript(r) ==
  res[r] \in {"CLAIMED", "IN_PROGRESS", "FINGERPRINT_MATCH",
              "FINGERPRINT_CONFLICT"}

\* The requests on storage key k whose handler is executing.
InFlight(k) == {r \in Reqs : pc[r] = "handler" /\ KeyOf(r) = k}

\* C1: among the requests that run the claim script on the key during one
\* lifetime of the record that started with the key absent, exactly one
\* observes CLAIMED (the one that found the key absent); every other one does
\* not, and with the same fingerprint it observes IN_PROGRESS or
\* FINGERPRINT_MATCH.
C1_ExactlyOneClaimed ==
  \A r \in Reqs :
    (RanScript(r) /\ sawAbsent[r]) =>
      /\ res[r] = "CLAIMED"
      /\ \A q \in Reqs \ {r} :
           (RanScript(q) /\ KeyOf(q) = KeyOf(r)
                         /\ claimEpoch[q] = claimEpoch[r]) =>
             /\ res[q] # "CLAIMED"
             /\ (fp[q] = fp[r]) =>
                  res[q] \in {"IN_PROGRESS", "FINGERPRINT_MATCH"}

\* C1 witness: three claims of one fingerprint in one lifetime of the record:
\* one CLAIMED, one IN_PROGRESS, one FINGERPRINT_MATCH.
C1_Witness ==
  \E r, q1, q2 \in Reqs :
    /\ res[r] = "CLAIMED" /\ sawAbsent[r]
    /\ res[q1] = "IN_PROGRESS" /\ res[q2] = "FINGERPRINT_MATCH"
    /\ claimEpoch[q1] = claimEpoch[r] /\ claimEpoch[q2] = claimEpoch[r]
    /\ fp[q1] = fp[r] /\ fp[q2] = fp[r]

\* C2: exactly-once processing on one key: no two handler executions are in
\* flight at the same time, and no handler starts while a COMPLETED record
\* exists.
C2_ExactlyOnce ==
  [][ \A k \in RedisKeys :
        /\ Cardinality(InFlight(k)') <= 1
        /\ (rec[k].status = "COMPLETED") =>
             (InFlight(k)' \subseteq InFlight(k)) ]_vars

\* C7: a replayed response (marked X-Idempotency-Hit) has the status, the
\* content type and the body of the response that a handler executed under
\* CLAIMED produced.
C7_ReplayLaw ==
  \A r \in Reqs :
    (pc[r] = "done" /\ res[r] = "FINGERPRINT_MATCH" /\ resp[r].hit) =>
      \E q \in Reqs :
        /\ res[q] = "CLAIMED"
        /\ resp[r].status = out[q].status
        /\ resp[r].content_type = out[q].content_type
        /\ resp[r].body = out[q].body

\* C8: apart from TTL expiry a COMPLETED record is never deleted or
\* rewritten, and a PROCESSING record only becomes COMPLETED or is deleted.
C8_Transitions ==
  [][ \A k \in RedisKeys :
        /\ (rec[k].status = "COMPLETED") => (rec'[k] = rec[k] \/ ExpireKey(k))
        /\ (rec[k].status = "PROCESSING") =>
             \/ rec'[k] = rec[k]
             \/ rec'[k].status = "COMPLETED"
             \/ rec'[k] = NoRec ]_vars

\* C9: a request whose claim script failed is answered 503 and its handler
\* is never invoked.
C9_FailClosed ==
  \A r \in Reqs :
    res[r] = "err" =>
      /\ pc[r] = "done"
      /\ resp[r].status = 503
      /\ out[r] = NoOut

\* C9 witness: a request whose claim failed has been answered.
C9_Witness ==
  \E r \in Reqs : res[r] = "err" /\ pc[r] = "done" /\ resp[r].status = 503

\* C10: when the post-process of a CLAIMED request has run (its store
\* commands having gone through), a 2xx or 4xx
\* response has left a COMPLETED record with the fingerprint, the status
\* code, the content type and the body under the replay TTL, and a 5xx
\* response has left the key deleted.
C10_PostProcess ==
  [][ \A r \in Reqs :
        (pc[r] = "post" /\ pc'[r] = "done" /\ stored'[r] = "ok") =>
          IF out[r].status >= 200 /\ out[r].status < 500
          THEN /\ rec'[KeyOf(r)].status = "COMPLETED"
               /\ rec'[KeyOf(r)].hash = fp[r]
               /\ "status_code" \in DOMAIN rec'[KeyOf(r)]
               /\ rec'[KeyOf(r)].content_type = out[r].content_type
               /\ rec'[KeyOf(r)].body = out[r].body
               /\ rec'[KeyOf(r)].ttl = cacheTTL
          ELSE rec'[KeyOf(r)] = NoRec ]_vars

\* C11: when the record of the key is COMPLETED and was stored by a request
\* with fingerprint F1, a claim on the key with another fingerprint observes
\* FINGERPRINT_CONFLICT, is answered 409 and its handler is not invoked.
C11_Conflict ==
  [][ \A q \in Reqs :
        LET k == KeyOf(q) IN
          ( /\ pc[q] = "idle" /\ RanScript(q)'
            /\ rec[k].status = "COMPLETED" /\ owner[k] # 0
            /\ fp'[q] # fp[owner[k]] ) =>
            /\ res'[q] = "FINGERPRINT_CONFLICT"
            /\ resp'[q].status = 409
            /\ pc'[q] = "done" /\ out'[q] = NoOut ]_vars

\* C12: a request observes IN_PROGRESS, FINGERPRINT_CONFLICT or
\* FINGERPRINT_MATCH only when an earlier request of its own principal has
\* claimed the key: requests of different principals never share a record.
C12_PrincipalScoped ==
  \A q \in Reqs :
    res[q] \in {"IN_PROGRESS", "FINGERPRINT_CONFLICT", "FINGERPRINT_MATCH"} =>
      \E r \in Reqs : r < q /\ who[r] = who[q] /\ res[r] = "CLAIMED"

(***************************************************************************)
(* Claims about the rate gate.                                             *)
(***************************************************************************)
\* C3: the admitted requests inside any window of length W periods number at
\* most ceil(R * W + B): for any two admissions i <= j, at times ti and tj,
\* j - i + 1 <= B + ceil(R * (tj - ti) / period).
C3_Smoothness ==
  \A i, j \in 1..Len(gAdmits) :
    i <= j =>
      (j - i + 1) <= gBurst + CeilDiv(gRate * (gAdmits[j] - gAdmits[i]),
                                      PeriodTicks)

\* What emergencyLimiter.Allow() answers in the current state.
Allowed == emergencyAllow(eTokens, eLast, gNow, gRate, gBurst)

\* C13: a request on the HTTP path whose script call failed is admitted
\* exactly when the emergency limiter allows it, paying one token;
\* otherwise it is answered 503 and the next handler is not invoked.
C13_Fallback ==
  [][ (gOutage /\ gNow' = gNow) =>
        /\ gErr'
        /\ gServed' = Allowed.ok
        /\ eTokens' = Allowed.tokens /\ eLast' = Allowed.last
        /\ (~Allowed.ok) => (gStatus' = 503 /\ ~gServed') ]_vars

\* C13 witness: with a positive burst, the limiter has run out of tokens and
\* the last request, whose script call failed, was answered 503.
C13_Witness ==
  /\ gOutage /\ gErr /\ gBurst > 0
  /\ gStatus = 503 /\ ~gServed
  /\ eTokens < TokenCost

\* C14: a call on the RPC path whose script call failed reaches the handler
\* only if the emergency limiter allows it, paying one token.
C14_GRPCFallback ==
  [][ (gOutage /\ gNow' = gNow /\ gServed') =>
        /\ Allowed.ok
        /\ eTokens' = Allowed.tokens /\ eLast' = Allowed.last ]_vars

(***************************************************************************)
(* Claims about the trusted-gateway strategy.                              *)
(***************************************************************************)
\* The peer has a well-formed address that lies outside every trusted CIDR.
Untrusted ==
  /\ tState = "ready"
  /\ tPeer.hasPort /\ tPeer.isIP
  /\ \A n \in tCIDRs : ~Contains(n, tPeer.ip)

\* C15: every request of a peer outside every trusted CIDR is rejected as
\* an untrusted source whatever its identity headers, no identity attribute
\* is put into the context, and two requests of the peer that differ in their
\* headers get the same result.
C15_UntrustedPeer ==
  Untrusted =>
    /\ \A i \in AuthReqs :
         tRes[i].done =>
           /\ tRes[i].err = "forbidden: untrusted source"
           /\ tRes[i].ctx = NoCtx
    /\ \A i, j \in AuthReqs :
         (tRes[i].done /\ tRes[j].done) => (tRes[i] = tRes[j])

\* C15 witness: an untrusted peer has made a request with an identity header
\* and one without, and both were answered.
C15_Witness ==
  /\ Untrusted
  /\ tRes[1].done /\ tRes[2].done
  /\ tHdr[1].userID = "admin" /\ tHdr[1].roles # <<>>
  /\ tHdr[2].userID = ""

(***************************************************************************)
(* Claims about the JWKS client.                                           *)
(***************************************************************************)
\* The callers whose fetchKeys call is outstanding.
Leaders == {c \in Callers : jPc[c] = "fetching"}

\* C4: once the constructor has returned a verifier its cache is never
\* empty, and the constructor fails when the initial fetch fails or yields
\* no valid RSA signing key.
C4_CacheNeverEmpty ==
  /\ (jState = "ready") => (jCache # {})
  /\ (jState = "ready") => (jInitErr = "none")
  /\ (jInitErr \in {"fetch", "zero_keys"}) => (jState = "failed")

\* C4 witness: a verifier that has seen a failed refresh, a refresh with zero
\* valid keys and a successful refresh.
C4_Witness ==
  /\ jState = "ready"
  /\ \E i, j, k \in 1..MaxFetches :
       /\ jFetchResult[i] = "fetch"
       /\ jFetchResult[j] = "zero_keys"
       /\ jFetchResult[k] = "none"

\* C5: at most one fetch is outstanding; every caller that waits shares the
\* one call in flight, and a caller to which doRefresh has returned holds
\* the result of the fetch it started or joined.
C5_SingleFlight ==
  /\ Cardinality(Leaders) <= 1
  /\ \A c \in Callers :
       (jPc[c] = "waiting") =>
         /\ sfCall # 0
         /\ jJoined[c] = sfCall
         /\ \E l \in Leaders : jJoined[l] = sfCall
  /\ \A c \in Callers :
       (jPc[c] = "back") => (jRes[c] = jFetchResult[jJoined[c]])

\* C5 witness: a tick and a kid-miss refresh have shared one fetch.
C5_Witness ==
  \E v \in Verifiers :
    /\ jPc["ticker"] = "back" /\ jPc[v] = "back"
    /\ jJoined[v] = jJoined["ticker"]

\* C16: when both verifiers have checked a token of kid k2, both missed the
\* cache, no tick intervened and every fetch was served a key set with k2,
\* both verifications got the key and exactly one fetch was issued.
C16_OneFetchForTwo ==
  ( /\ \A v \in Verifiers :
         jPc[v] = "done" /\ jKid[v] = "k2" /\ jJoined[v] # 0
    /\ jJoined["ticker"] = 0 /\ jPc["ticker"] = "idle"
    /\ jServedK2 ) =>
    /\ \A v \in Verifiers : jVerdict[v] = "key"
    /\ jCalls = 1

(***************************************************************************)
(* Claims about the audit writer.                                          *)
(***************************************************************************)
\* Number of times event e occurs in the sink.
Written(e) == Cardinality({i \in 1..Len(aSink) : aSink[i] = e})

\* Every Log call came before Close and Close has returned, in availability
\* mode.
ClosedAfterLogs ==
  /\ \E c \in Closers : aClose[c] = "returned"
  /\ ~aBlockOnFull /\ ~aPanicked

Counted ==
  \/ aDropCount' = aDropCount + 1
  \/ aDropCount' = 0 /\ aWarns' = Append(aWarns, aDropCount + 1)

Enqueued == {e \in 1..MaxLog : aRet[e] = "nil"}

C19_BoundedShutdown ==
  sPhase \in {"http_shutdown", "grpc_stop"} => sNow <= ShutdownWindow


(***************************************************************************)
(* C20.  In strict mode a record whose DLQ publish failed is never         *)
(* committed and Start has returned the error; and every committed record  *)
(* had its handler succeed or its DLQ publish succeed.                     *)
(***************************************************************************)
C20_Strict ==
  kCfg.StrictMode =>
    /\ kDLQFailed # {} => (kPc = "returned" /\ kRet = "dlq_err")
    /\ kDLQFailed \cap kCommitted = {}
    /\ \A r \in kCommitted :
         r \in kHandled \/ <<kCfg.DLQTopic, r>> \in kDLQ

\* Strict mode: a record was committed, a later one failed and its DLQ
\* publish failed too.
C20_Witness ==
  /\ kCfg.StrictMode
  /\ kDLQFailed # {}
  /\ kCommitted # {}
  /\ kPc = "returned"


\* Records that reached MaxRetries and went into the DLQ handling.
Exhausted ==
  {r \in Records : <<kCfg.DLQTopic, r>> \in kDLQ} \cup kDLQFailed \cup kDropped

(***************************************************************************)
(* C21.  A record is committed only after its handler returned nil for it  *)
(* or after it used up MaxRetries > 0 attempts and went into the DLQ       *)
(* handling; when processWithRetry is ended by the cancellation of the     *)
(* context, its record is not committed and Start has returned.            *)
(***************************************************************************)
C21_CommitAfter ==
  /\ \A r \in kCommitted :
       r \in kHandled \/ (kCfg.MaxRetries > 0 /\ r \in Exhausted)
  /\ kPc = "commit" =>
       \/ kCur \in kHandled
       \/ kCfg.MaxRetries > 0 /\ kAttempt >= kCfg.MaxRetries
  /\ kRet = "ctx" => (kCur \notin kCommitted /\ kPc = "returned")

\* A record was committed, then the retry loop of a later record that had
\* already failed once was ended by the cancellation.
C21_Witness ==
  /\ kRet = "ctx"
  /\ kAttempt > 0
  /\ kCommitted # {}
  /\ Exhausted \cap kCommitted # {}


(***************************************************************************)
(* C22.  With MaxRetries > 0 and no DLQ producer configured, no record is  *)
(* dropped: a record the consumer has committed had its handler succeed    *)
(* or is in the DLQ topic.                                                 *)
(***************************************************************************)
C22_Forwarded ==
  (kCfg.MaxRetries > 0 /\ ~kHasDLQ) =>
    \A r \in kCommitted :
      r \in kHandled \/ <<kCfg.DLQTopic, r>> \in kDLQ


\* Records whose offset lies below an offset the consumer has committed.
Covered == {r \in Records : \E c \in kCommitted : r <= c}

\* A record PollFetches has delivered.
Polled(r) == r < kPos

C24_StaleRefresh ==
  (vPc = "done" /\ vAge > MaxStale /\ vTok.alg = "RS256") => vRefreshes = 1

\* The token is otherwise valid: RSA-signed by a key the client holds, from
\* the configured issuer, with an exp claim.
OtherwiseValid ==
  /\ vTok.alg = "RS256"
  /\ vTok.kid \in vCache
  /\ vTok.sig
  /\ vTok.iss = Issuer
  /\ vTok.exp # NoClaim

(***************************************************************************)
(* C25.  An otherwise valid token is accepted exactly at the times now     *)
(* with nbf - 60 s <= now <= exp + 60 s, and ErrExpiredToken is returned   *)
(* exactly when exp < now - 60 s.                                          *)
(***************************************************************************)
C25_Skew ==
  (vPc = "done" /\ OtherwiseValid) =>
    /\ vResult = "claims" <=>
         /\ vTok.nbf = NoClaim \/ vTok.nbf - 60 <= vNow
         /\ vNow <= vTok.exp + 60
    /\ vResult = "ErrExpiredToken" <=> vTok.exp < vNow - 60


(***************************************************************************)
(* C26.  With the remote counter reachable, of the requests one identity   *)
(* issues at the same instant exactly the first burst ones are admitted    *)
(* and every other one is denied with a Retry-After between 1 and 3        *)
(* seconds (10 of 30 with rate 10 and burst 10); the first request issued  *)
(* one second later is admitted.                                           *)
(***************************************************************************)
C26_Burst ==
  /\ [](( ~lOutage /\ lLater = 0 ) =>
          /\ lAdmitted = Min(lIssued, lBurst)
          /\ lDenied = lIssued - lAdmitted
          /\ lRetry \subseteq 1..3)
  /\ [][ ( /\ ~lOutage /\ lLater = 0 /\ lLater' = 1
           /\ lNow >= TicksPerSec ) =>
             (lStatus' = 200 /\ lAdmitted' = lAdmitted + 1) ]_vars

\* 30 requests at the first instant, 10 admitted and 20 denied, and a 31st
\* one second later, admitted.
C26_Witness ==
  /\ ~lOutage
  /\ lIssued = 31 /\ lLater = 1 /\ lNow = TicksPerSec
  /\ lAdmitted = 11 /\ lDenied = 20
  /\ lRetry = {1}


(***************************************************************************)
(* C27.  With burst = 0 and rate > 0 a request that arrives at least       *)
(* period / rate after the previously admitted one, or before any was      *)
(* admitted, is admitted.                                                  *)
(***************************************************************************)
C27_StrictInterval ==
  [][ ( /\ gBurst = 0 /\ gRate > 0 /\ ~gOutage
        /\ gNow' = gNow
        /\ \/ gAdmits = <<>>
           \/ gRate * (gNow - gAdmits[Len(gAdmits)]) >= PeriodTicks ) =>
          (gServed' /\ gStatus' = 200) ]_vars


(***************************************************************************)
(* C28.  With the remote counter unreachable, rate 10 and burst 10, the    *)
(* emergency limiter admits at most 40 requests during the first 2         *)
(* seconds, however the requests are spaced.                               *)
(***************************************************************************)
C28_FortyInTwoSeconds ==
  ( /\ lOutage /\ lRate = 10 /\ lBurst = 10
    /\ lNow < 2 * TicksPerSec ) => lAdmitted <= 40


\* Availability mode: every Log call has been made, all within the first
\* tick, and the worker has not yet taken an event from the full channel.
SubmittedWhileWorkerBlocked ==
  /\ ~aBlockOnFull /\ ~aClosed
  /\ aLogged = MaxLog /\ aNow = 0
  /\ aWorker = "recv" /\ aSink = <<>> /\ aFailed = {}
  /\ Len(aQueue) = BufferSize

(***************************************************************************)
(* C29.  In availability mode with buffer K, when N > K events are         *)
(* submitted while the worker is blocked, K are accepted, N - K are        *)
(* dropped and exactly one summary is emitted, reporting                   *)
(* dropped_count = N - K (K = 4, N = 10 in the claim).                     *)
(***************************************************************************)
C29_OneSummary ==
  SubmittedWhileWorkerBlocked =>
    /\ Cardinality(aDropped) = MaxLog - BufferSize
    /\ aWarns = <<MaxLog - BufferSize>>


(***************************************************************************)
(* C30.  The drop counter never decreases.                                 *)
(***************************************************************************)
C30_Monotone ==
  [][aDropCount' >= aDropCount]_vars


(***************************************************************************)
(* C31.  A request whose claim observes IN_PROGRESS is answered 409 with   *)
(* Retry-After: 5, and its handler is not invoked.                         *)
(***************************************************************************)
C31_InProgress ==
  \A r \in Reqs :
    res[r] = "IN_PROGRESS" =>
      /\ resp[r].status = 409
      /\ resp[r].retry_after = "5"
      /\ out[r] = NoOut


\* The gate does not engage for request r: a safe method, or no key header.
NotGated(r) ==
  hreq[r].method \in {"GET", "HEAD", "OPTIONS"} \/ hreq[r].key = ""

(***************************************************************************)
(* C32.  A GET, HEAD or OPTIONS request, and any request without the key   *)
(* header, does not run the claim script, is not answered from a record    *)
(* and stores none; once answered, it was answered by its handler.         *)
(***************************************************************************)
C32_OnlyUnsafeWithKey ==
  \A r \in Reqs :
    NotGated(r) =>
      /\ res[r] = "none"
      /\ stored[r] = "none"
      /\ ~resp[r].hit
      /\ pc[r] = "done" => out[r] # NoOut


(***************************************************************************)
(* C33.  A request rejected because its peer is untrusted is answered HTTP *)
(* 403 and RPC PermissionDenied, every other authentication failure HTTP   *)
(* 401 and RPC Unauthenticated, and in both cases the handler is not       *)
(* invoked.                                                                *)
(***************************************************************************)
C33_UntrustedIsForbidden ==
  \A i \in AuthReqs :
    (tRes[i].done /\ tRes[i].err # "") =>
      /\ ~HTTPMiddleware(tRes[i]).handler
      /\ ~GRPCUnaryInterceptor(tRes[i]).handler
      /\ IF tRes[i].err = "forbidden: untrusted source"
         THEN /\ HTTPMiddleware(tRes[i]).status = 403
              /\ GRPCUnaryInterceptor(tRes[i]).code = "PermissionDenied"
         ELSE /\ HTTPMiddleware(tRes[i]).status = 401
              /\ GRPCUnaryInterceptor(tRes[i]).code = "Unauthenticated"


(***************************************************************************)
(* C34.  Whatever the interleaving of the callers of handleDrop, two       *)
(* distress summaries are never emitted for instants less than a minute    *)
(* apart: at most one summary per minute.                                  *)
(***************************************************************************)
C34_OnePerMinute ==
  \A i, j \in 1..Len(hEmits) :
    i < j => hEmits[j].at - hEmits[i].at >= TicksPerMinute


(***************************************************************************)
(* C35.  The wait before the k-th retry of a record is                     *)
(* min(InitialBackoff * 2^(k-1), MaxBackoff), so that no wait exceeds      *)
(* MaxBackoff, whatever the two configured values are.                     *)
(***************************************************************************)
C35_CappedWaits ==
  \A k \in 1..Len(kWaits) :
    kWaits[k] = IF kCfg.InitialBackoff * 2^(k - 1) < kCfg.MaxBackoff
                THEN kCfg.InitialBackoff * 2^(k - 1)
                ELSE kCfg.MaxBackoff


(***************************************************************************)
(* C36.  A Log call that runs while Close runs, or after Close, does not   *)
(* panic: it returns nil with the event enqueued, or an error that reports *)
(* the event as not written.                                               *)
(***************************************************************************)
C36_LogAfterClose ==
  /\ ~aPanicked
  /\ \A e \in 1..MaxLog :
       \/ aRet[e] = "none"
       \/ aRet[e] = "nil" /\ e \notin aDropped
       \/ aRet[e] \in {"ErrAuditBufferFull", "ctx.Err"} /\ e \in aDropped


(***************************************************************************)
(* C37.  Every record whose status is COMPLETED holds a fingerprint, also  *)
(* when the response was stored after the lease had run out and the key    *)
(* had disappeared.                                                        *)
(***************************************************************************)
C37_CompletedHasFingerprint ==
  \A k \in RedisKeys :
    rec[k].status = "COMPLETED" => rec[k].hash \in Fingerprints


(***************************************************************************)
(* C38.  Expiry of the key is unobservable: for every rate, burst and      *)
(* sequence of request times, each request is admitted by the script with  *)
(* key expiry exactly when it is admitted with the stored tat kept         *)
(* forever.                                                                *)
(***************************************************************************)
C38_ExpiryUnobservable ==
  (xLast[1] = -1) <=> (xLast[2] = -1)


(***************************************************************************)
(* C39.  Once Start has returned, with nil or with the error of a listener *)
(* that failed, no listener that Start started is still accepting.         *)
(***************************************************************************)
C39_NoListenerLeft ==
  sPhase = "returned" => (~sHttpUp /\ ~sGrpcUp)


=============================================================================
